---------------------------- MODULE Spec2Model ----------------------------
(***************************************************************************)
(* State-machine model of the transaction security analysis pipeline of    *)
(* sentimentX-backend: the risk scorer (src/src/ai/scoring.ts), the        *)
(* SecurityDetector orchestrator (src/src/ai/detector.ts), the pattern     *)
(* detectors, the AlertService (src/src/services/alert.service.ts), the    *)
(* BlockchainService polling and event processing (src/unnamed/part_014)   *)
(* and the ContractService registry (src/src/services/github.service.ts).  *)
(***************************************************************************)
EXTENDS Integers, Sequences, FiniteSets, TLC

VARIABLES
    transactionHistory,  \* SecurityDetector.transactionHistory: address -> Transaction[]
    calls,               \* number of analyzeTransaction invocations so far
    lastCall,            \* the analyzeTransaction invocation of the last step, if it made one
    risk,                \* the last direct calculateRiskScore invocation: arguments and result
    monitoredContracts,  \* BlockchainService.monitoredContracts
    inFlight,            \* processTransactionEvent invocations waiting on the network
    savedContracts,      \* the cache entry 'monitored:contracts'
    alerts,              \* AlertService.alerts, a Map in insertion order
    nextAlertId,         \* AlertService.nextAlertId
    persisted,           \* the cache entry 'security:alerts'
    loadRead,            \* what loadAlerts read at construction, until its continuation runs
    allocated,           \* sequence numbers createAlert gave out, in order of allocation
    lastProcessedTxHashes, \* BlockchainService.lastProcessedTxHashes
    contracts,           \* ContractService.contracts, a Map in insertion order
    savedContractList,   \* the cache entry CACHE.KEYS.CONTRACT_LIST
    tasks,               \* addContract invocations and their analyses waiting on the network
    analysisCache,       \* addresses whose cache entry 'ai:analysis:' + address is set
    aiCalls,             \* SecurityDetector.analyzeContract invocations waiting on the AI provider
    gemini,              \* GeminiService: whether its model is initialised, and its cache
    connection,          \* connectToMultiversX: its position, its retries, whether polling was started
    reachable,           \* whether the MultiversX provider answers at present
    analyzedTransactions, \* TransactionService.analyzedTransactions, the hashes it holds
    txTasks,             \* getTransactionAnalysis invocations waiting on the network
    now,                 \* Date.now()
    lastOp               \* the operation of the last step

vars == <<transactionHistory, calls, lastCall, risk, monitoredContracts,
          inFlight, savedContracts, alerts, nextAlertId, persisted, loadRead,
          allocated, lastProcessedTxHashes, contracts, savedContractList, tasks,
          analysisCache, aiCalls, gemini, connection, reachable,
          analyzedTransactions, txTasks, now, lastOp>>

detectorVars == <<transactionHistory, calls, lastCall>>
monitorVars == <<monitoredContracts, inFlight, savedContracts, lastProcessedTxHashes>>
storeVars == <<alerts, nextAlertId, persisted, loadRead, allocated>>
registryVars == <<contracts, savedContractList, tasks, analysisCache>>
aiVars == <<aiCalls, gemini>>
connectVars == <<connection, reachable>>
transactionVars == <<analyzedTransactions, txTasks>>

-----------------------------------------------------------------------------
(* Bounds of the model *)

MaxTx == 2          \* analyzeTransaction invocations explored after Init
MaxAlerts == 2      \* alerts the store may hold
MaxClock == 1       \* clock ticks explored
MaxInFlight == 1    \* processTransactionEvent invocations in flight at once
MaxPatterns == 3    \* length of the pattern lists handed to calculateRiskScore
MaxTasks == 1       \* addContract invocations and analyses in flight at once
MaxCount == 2       \* alertCount a contract may reach
MaxPolls == 3       \* polled transactions explored
MaxAiCalls == 1     \* analyzeContract invocations waiting on the AI provider at once
MaxAttempts == 3    \* generateContent requests explored within one AI call
MaxTxTasks == 2     \* getTransactionAnalysis invocations in flight at once
MaxValue == 3       \* largest transaction value handed to the flash-loan detector

(* Program constants *)

MAX_HISTORY_SIZE == 1000
ANOMALY_WEIGHT == 20
MIN_HISTORY == 10
Z_THRESHOLD == 3

-----------------------------------------------------------------------------
(* Input domains *)

Addrs == {"erd1a", "erd1b"}
TxHashes == {"tx1", "tx2", "tx3"}

Severities == {"critical", "high", "medium", "low"}

Undefined == "undefined"
Null == "null"

\* An optional field or argument: <<>> when undefined, else <<value>>
Given(opt) == opt # <<>>

Min(a, b) == IF a < b THEN a ELSE b
Max(a, b) == IF a > b THEN a ELSE b


-----------------------------------------------------------------------------
(* Strings.  TLC treats a string as an atom, so the text a detector scans *)
(* is a sequence of one-character strings; Chars gives the characters of  *)
(* each payload of the model.                                              *)

Base64Alphabet ==
    <<"A", "B", "C", "D", "E", "F", "G", "H", "I", "J", "K", "L", "M", "N",
      "O", "P", "Q", "R", "S", "T", "U", "V", "W", "X", "Y", "Z", "a", "b",
      "c", "d", "e", "f", "g", "h", "i", "j", "k", "l", "m", "n", "o", "p",
      "q", "r", "s", "t", "u", "v", "w", "x", "y", "z", "0", "1", "2", "3",
      "4", "5", "6", "7", "8", "9", "+", "/">>

UpperCase ==
    <<"A", "B", "C", "D", "E", "F", "G", "H", "I", "J", "K", "L", "M", "N",
      "O", "P", "Q", "R", "S", "T", "U", "V", "W", "X", "Y", "Z">>

LowerCase ==
    <<"a", "b", "c", "d", "e", "f", "g", "h", "i", "j", "k", "l", "m", "n",
      "o", "p", "q", "r", "s", "t", "u", "v", "w", "x", "y", "z">>

\* The characters of the 7-bit codes 0..127 (a control code and the
\* backquote are written xNN).
AsciiTable ==
    <<"x00", "x01", "x02", "x03", "x04", "x05", "x06", "x07",
      "x08", "x09", "x0A", "x0B", "x0C", "x0D", "x0E", "x0F",
      "x10", "x11", "x12", "x13", "x14", "x15", "x16", "x17",
      "x18", "x19", "x1A", "x1B", "x1C", "x1D", "x1E", "x1F",
      " ", "!", "\"", "#", "$", "%", "&", "'",
      "(", ")", "*", "+", ",", "-", ".", "/",
      "0", "1", "2", "3", "4", "5", "6", "7",
      "8", "9", ":", ";", "<", "=", ">", "?",
      "@", "A", "B", "C", "D", "E", "F", "G",
      "H", "I", "J", "K", "L", "M", "N", "O",
      "P", "Q", "R", "S", "T", "U", "V", "W",
      "X", "Y", "Z", "[", "\\", "]", "^", "_",
      "x60", "a", "b", "c", "d", "e", "f", "g",
      "h", "i", "j", "k", "l", "m", "n", "o",
      "p", "q", "r", "s", "t", "u", "v", "w",
      "x", "y", "z", "{", "|", "}", "~", "x7F">>

\* A byte above 127 decodes to no ASCII character (Buffer.toString yields
\* U+FFFD or a non-ASCII character); either way it matches no keyword.
ReplacementChar == "xFFFD"

Chars(data) ==
    CASE data = "withdraw@00" ->
            <<"w", "i", "t", "h", "d", "r", "a", "w", "@", "0", "0">>
      [] data = "d2l0aGRyYXc=" ->
            <<"d", "2", "l", "0", "a", "G", "R", "y", "Y", "X", "c", "=">>
      [] data = "withdraw" ->
            <<"w", "i", "t", "h", "d", "r", "a", "w">>
      [] data = "a@b" ->
            <<"a", "@", "b">>
      [] data = "a@b@c" ->
            <<"a", "@", "b", "@", "c">>
      [] data = "a@b@c@d" ->
            <<"a", "@", "b", "@", "c", "@", "d">>
      [] data = "a@b@c@d@e" ->
            <<"a", "@", "b", "@", "c", "@", "d", "@", "e">>
      [] data = "flashLoan@01" ->
            <<"f", "l", "a", "s", "h", "L", "o", "a", "n", "@", "0", "1">>
      [] data = "price_oracle@01" ->
            <<"p", "r", "i", "c", "e", "_", "o", "r", "a", "c", "l", "e",
              "@", "0", "1">>
      [] data = "price_oracle_rate@01" ->
            <<"p", "r", "i", "c", "e", "_", "o", "r", "a", "c", "l", "e",
              "_", "r", "a", "t", "e", "@", "0", "1">>
      [] data = "c3dhcEAwMQ==" ->
            <<"c", "3", "d", "h", "c", "E", "A", "w", "M", "Q", "=", "=">>
      [] OTHER -> <<>>

\* String.prototype.includes
Includes(s, kw) ==
    \E i \in 1..(Len(s) - Len(kw) + 1) : SubSeq(s, i, i + Len(kw) - 1) = kw

\* String.prototype.toLowerCase on ASCII text
ToLowerCase(s) ==
    [i \in 1..Len(s) |->
        IF \E j \in 1..26 : UpperCase[j] = s[i]
        THEN LowerCase[CHOOSE j \in 1..26 : UpperCase[j] = s[i]]
        ELSE s[i]]

\* data.split('@').length
SplitLength(s) == Cardinality({i \in 1..Len(s) : s[i] = "@"}) + 1

Base64Chars == {Base64Alphabet[i] : i \in 1..64}

\* /^([A-Za-z0-9+/]{4})*([A-Za-z0-9+/]{3}=|[A-Za-z0-9+/]{2}==)?$/.test(str)
isBase64(str) ==
    LET n == Len(str)
        pad == IF n >= 1 /\ str[n] = "="
               THEN (IF n >= 2 /\ str[n - 1] = "=" THEN 2 ELSE 1)
               ELSE 0
    IN  /\ n % 4 = 0
        /\ \A i \in 1..(n - pad) : str[i] \in Base64Chars

Base64Index(c) == (CHOOSE i \in 1..64 : Base64Alphabet[i] = c) - 1

ByteToChar(b) == IF b < 128 THEN AsciiTable[b + 1] ELSE ReplacementChar

\* The bytes of one 4-character group; '=' padding drops the last bytes.
DecodeGroup(g) ==
    LET v1 == Base64Index(g[1])
        v2 == Base64Index(g[2])
        v3 == IF g[3] = "=" THEN 0 ELSE Base64Index(g[3])
        v4 == IF g[4] = "=" THEN 0 ELSE Base64Index(g[4])
        b1 == v1 * 4 + (v2 \div 16)
        b2 == (v2 % 16) * 16 + (v3 \div 4)
        b3 == (v3 % 4) * 64 + v4
    IN  IF g[3] = "=" THEN <<b1>>
        ELSE IF g[4] = "=" THEN <<b1, b2>>
        ELSE <<b1, b2, b3>>

RECURSIVE Base64Bytes(_)
Base64Bytes(str) ==
    IF Len(str) < 4 THEN <<>>
    ELSE DecodeGroup(SubSeq(str, 1, 4)) \o Base64Bytes(SubSeq(str, 5, Len(str)))

\* Buffer.from(rawData, 'base64').toString()
Base64Decode(str) ==
    LET bytes == Base64Bytes(str)
    IN  [i \in 1..Len(bytes) |-> ByteToChar(bytes[i])]

\* getTransactionData of the four detectors (the same text in each class)
getTransactionData(tx) ==
    LET rawData == Chars(tx.data)
    IN  IF isBase64(rawData) THEN Base64Decode(rawData) ELSE rawData

-----------------------------------------------------------------------------
(* The four pattern detectors, on a transaction without contract code (an *)
(* absent or empty contractCode is falsy, so analyzeContractCode is not   *)
(* entered).                                                               *)

adminFunctionKeywords ==
    << <<"s", "e", "t", "_", "o", "w", "n", "e", "r">>,
       <<"s", "e", "t", "O", "w", "n", "e", "r">>,
       <<"c", "h", "a", "n", "g", "e", "_", "o", "w", "n", "e", "r">>,
       <<"c", "h", "a", "n", "g", "e", "O", "w", "n", "e", "r">>,
       <<"t", "r", "a", "n", "s", "f", "e", "r", "_", "o", "w", "n", "e", "r", "s", "h", "i", "p">>,
       <<"t", "r", "a", "n", "s", "f", "e", "r", "O", "w", "n", "e", "r", "s", "h", "i", "p">>,
       <<"s", "e", "t", "_", "a", "d", "m", "i", "n">>,
       <<"s", "e", "t", "A", "d", "m", "i", "n">>,
       <<"u", "p", "g", "r", "a", "d", "e">>,
       <<"p", "a", "u", "s", "e">>,
       <<"u", "n", "p", "a", "u", "s", "e">>,
       <<"w", "i", "t", "h", "d", "r", "a", "w">>,
       <<"e", "m", "e", "r", "g", "e", "n", "c", "y">>,
       <<"s", "e", "t", "_", "f", "e", "e">>,
       <<"s", "e", "t", "F", "e", "e">>,
       <<"u", "p", "d", "a", "t", "e", "_", "c", "o", "n", "f", "i", "g">>,
       <<"u", "p", "d", "a", "t", "e", "C", "o", "n", "f", "i", "g">> >>

arithmeticOperationKeywords ==
    << <<"a", "d", "d">>,
       <<"s", "u", "b">>,
       <<"m", "u", "l">>,
       <<"d", "i", "v">>,
       <<"i", "n", "c", "r", "e", "m", "e", "n", "t">>,
       <<"d", "e", "c", "r", "e", "m", "e", "n", "t">>,
       <<"i", "n", "c", "r", "e", "a", "s", "e">>,
       <<"d", "e", "c", "r", "e", "a", "s", "e">>,
       <<"+">>,
       <<"-">>,
       <<"*">>,
       <<"/">> >>

flashLoanKeywords ==
    << <<"f", "l", "a", "s", "h">>,
       <<"l", "o", "a", "n">>,
       <<"b", "o", "r", "r", "o", "w">>,
       <<"l", "e", "n", "d">>,
       <<"l", "i", "q", "u", "i", "d", "i", "t", "y">>,
       <<"s", "w", "a", "p">>,
       <<"a", "r", "b", "i", "t", "r", "a", "g", "e">> >>

priceManipulationKeywords ==
    << <<"p", "r", "i", "c", "e">>,
       <<"o", "r", "a", "c", "l", "e">>,
       <<"s", "w", "a", "p">>,
       <<"e", "x", "c", "h", "a", "n", "g", "e">>,
       <<"s", "l", "i", "p", "p", "a", "g", "e">>,
       <<"r", "a", "t", "e">>,
       <<"p", "o", "o", "l">> >>

Kw_transfer == <<"t", "r", "a", "n", "s", "f", "e", "r">>
Kw_call == <<"c", "a", "l", "l">>
Kw_send == <<"s", "e", "n", "d">>
Kw_storage == <<"s", "t", "o", "r", "a", "g", "e">>

\* Number(10^20) lies between 1 and 2 value units: value > 10^20 iff units > 1.
FLASH_LOAN_VALUE == 1

\* FlashLoanDetector.getTransactionValue: a throwing accessor counts as 0
getTransactionValue(tx) == IF tx.bad = "value" THEN 0 ELSE tx.value

\* ReentrancyDetector.detectReentrancyPattern
detectReentrancyPattern(tx, code) ==
    LET data == getTransactionData(tx)
        hasTransferCall == Includes(data, Kw_transfer) /\ Includes(data, Kw_call)
        hasSendBeforeState == Includes(data, Kw_send) /\ Includes(data, Kw_storage)
    IN  hasTransferCall \/ hasSendBeforeState

\* OverflowDetector.checkForArithmeticOperations
checkForArithmeticOperations(data) ==
    \E k \in 1..Len(arithmeticOperationKeywords) :
        Includes(data, arithmeticOperationKeywords[k])

\* OverflowDetector.detectOverflowPattern
detectOverflowPattern(tx, code) ==
    checkForArithmeticOperations(getTransactionData(tx))

\* AccessControlDetector.checkForAdminFunction
checkForAdminFunction(data) ==
    \E k \in 1..Len(adminFunctionKeywords) :
        Includes(data, adminFunctionKeywords[k])

\* AccessControlDetector.detectAccessControlIssue
detectAccessControlIssue(tx, code) ==
    checkForAdminFunction(getTransactionData(tx))

\* FlashLoanDetector.checkForFlashLoanKeywords
checkForFlashLoanKeywords(data) ==
    \E k \in 1..Len(flashLoanKeywords) :
        Includes(ToLowerCase(data), flashLoanKeywords[k])

\* FlashLoanDetector.checkForComplexData
checkForComplexData(data) == SplitLength(data) - 1 > 3

\* FlashLoanDetector.checkForPriceManipulation
checkForPriceManipulation(data) ==
    Cardinality({k \in 1..Len(priceManipulationKeywords) :
                    Includes(ToLowerCase(data), priceManipulationKeywords[k])}) >= 3

\* FlashLoanDetector.detectFlashLoanPattern
detectFlashLoanPattern(tx, code) ==
    LET value == getTransactionValue(tx)
        data == getTransactionData(tx)
    IN  /\ value > FLASH_LOAN_VALUE
        /\ \/ checkForFlashLoanKeywords(data)
           \/ checkForComplexData(data)
           \/ checkForPriceManipulation(data)

\* The pattern of each detector class: its id and severity.
ReentrancyPattern == [id |-> "reentrancy", severity |-> "critical"]
OverflowPattern == [id |-> "integer-overflow", severity |-> "high"]
AccessControlPattern == [id |-> "access-control", severity |-> "high"]
FlashLoanPattern == [id |-> "flash-loan-attack", severity |-> "high"]

\* The patterns of the four detector classes, in the order the detector
\* framework lists them, that match (tx, code).
DetectorMatches(tx, code) ==
    LET hit(b, p) == IF b THEN <<p>> ELSE <<>>
    IN  hit(detectReentrancyPattern(tx, code), ReentrancyPattern)
        \o hit(detectOverflowPattern(tx, code), OverflowPattern)
        \o hit(detectAccessControlIssue(tx, code), AccessControlPattern)
        \o hit(detectFlashLoanPattern(tx, code), FlashLoanPattern)

-----------------------------------------------------------------------------
(* Risk scoring: src/src/ai/scoring.ts, the module detector.ts imports *)

\* pattern.severity.charAt(0).toUpperCase() + pattern.severity.slice(1)
Capitalize(severity) ==
    CASE severity = "critical" -> "Critical"
      [] severity = "high" -> "High"
      [] severity = "medium" -> "Medium"
      [] severity = "low" -> "Low"
      [] OTHER -> severity

\* SecurityScoring.calculateSecurityScore: severityWeights[severity] || 0
severityWeights(severity) ==
    CASE severity = "Critical" -> 30
      [] severity = "High" -> 15
      [] severity = "Medium" -> 7
      [] severity = "Low" -> 3
      [] OTHER -> 0

RECURSIVE totalPenalty(_)
totalPenalty(vulnerabilities) ==
    IF vulnerabilities = <<>> THEN 0
    ELSE severityWeights(Head(vulnerabilities).severity)
         + totalPenalty(Tail(vulnerabilities))

\* SecurityScoring.calculateSecurityScore
calculateSecurityScore(vulnerabilities) ==
    IF Len(vulnerabilities) = 0 THEN 100
    ELSE Max(0, 100 - totalPenalty(vulnerabilities))

\* The level chain of calculateRiskScore
RiskLevelOf(score) ==
    IF score >= 75 THEN "critical"
    ELSE IF score >= 50 THEN "high"
    ELSE IF score >= 25 THEN "medium"
    ELSE IF score > 0 THEN "low"
    ELSE "none"

\* calculateRiskScore without Math.max(0, ...) around the anomaly penalty
RiskScoreValue_Unclamped(patterns, isAnomaly) ==
    LET vulnerabilities ==
            [i \in 1..Len(patterns) |-> [severity |-> Capitalize(patterns[i].severity)]]
        score == calculateSecurityScore(vulnerabilities)
    IN  IF isAnomaly THEN score - ANOMALY_WEIGHT ELSE score

\* The score of calculateRiskScore before its level is derived
RiskScoreValue(patterns, isAnomaly) ==
    LET vulnerabilities ==
            [i \in 1..Len(patterns) |-> [severity |-> Capitalize(patterns[i].severity)]]
        score == calculateSecurityScore(vulnerabilities)
    IN  IF isAnomaly THEN Max(0, score - ANOMALY_WEIGHT) ELSE score

\* calculateRiskScore(patterns, isAnomaly)
calculateRiskScore(patterns, isAnomaly) ==
    LET score == RiskScoreValue(patterns, isAnomaly)
    IN  [score |-> score, level |-> RiskLevelOf(score)]

-----------------------------------------------------------------------------
(* SecurityDetector: src/src/ai/detector.ts *)

\* detector.ts knownPatterns: one entry, whose detector is () => false
knownPatterns == << [id |-> "reentrancy", severity |-> "critical"] >>

\* pattern.detector(transaction, contractCode) of a knownPatterns entry
knownPatternDetector(pattern, tx, code) == FALSE

\* SecurityDetector.detectKnownPatterns
detectKnownPatterns(tx, code) ==
    SelectSeq(knownPatterns, LAMBDA p : knownPatternDetector(p, tx, code))

\* updateTransactionHistory with pop() in place of shift()
PushBounded_DropsNewest(history, tx) ==
    LET pushed == Append(history, tx)
    IN  IF Len(pushed) > MAX_HISTORY_SIZE
        THEN SubSeq(pushed, 1, Len(pushed) - 1)
        ELSE pushed

\* history.push(transaction); if (history.length > MAX_HISTORY_SIZE) history.shift()
PushBounded(history, tx) ==
    LET pushed == Append(history, tx)
    IN  IF Len(pushed) > MAX_HISTORY_SIZE THEN Tail(pushed) ELSE pushed

\* SecurityDetector.updateTransactionHistory
updateTransactionHistory(th, tx) ==
    [th EXCEPT ![tx.receiver] = PushBounded(@, tx)]

\* Sums over history[lo..hi], split in halves to keep the recursion shallow
RECURSIVE SumValue(_, _, _)
SumValue(h, lo, hi) ==
    IF lo > hi THEN 0
    ELSE IF lo = hi THEN h[lo].value
    ELSE LET mid == (lo + hi) \div 2
         IN  SumValue(h, lo, mid) + SumValue(h, mid + 1, hi)

RECURSIVE SumSquare(_, _, _)
SumSquare(h, lo, hi) ==
    IF lo > hi THEN 0
    ELSE IF lo = hi THEN h[lo].value * h[lo].value
    ELSE LET mid == (lo + hi) \div 2
         IN  SumSquare(h, lo, mid) + SumSquare(h, mid + 1, hi)

\* Math.abs((currentValue - mean) / stdDev) > 3 over n values with sum s and
\* sum of squares q: mean = s/n and stdDev = sqrt(n*q - s*s)/n (population),
\* so the exact quotient is |n*cur - s| / sqrt(n*q - s*s).  A zero stdDev
\* gives NaN (0/0, not > 3) or Infinity (> 3).  When the exact quotient
\* equals 3 the double that JavaScript computes is 3, 2.9999999999999996 or
\* 3.0000000000000004 depending on the values.  For nine values 0 and a
\* tenth value cur in 1..11 the IEEE-754 evaluation of simple-statistics'
\* mean and standardDeviation exceeds 3 for cur = 7 only; for any other tie
\* roundsUp stands for the rounding.
ZScoreExceeds(n, s, q, cur, roundsUp) ==
    LET dev == n * cur - s
        var == n * q - s * s
    IN  IF var = 0 THEN dev # 0
        ELSE IF dev * dev = Z_THRESHOLD * Z_THRESHOLD * var
             THEN IF n = 10 /\ s = cur /\ q = cur * cur /\ cur \in 1..11
                  THEN cur = 7
                  ELSE roundsUp
        ELSE dev * dev > Z_THRESHOLD * Z_THRESHOLD * var

\* The quotient is exactly 3 for values other than those evaluated above
OpenTie(n, s, q, cur) ==
    LET dev == n * cur - s
        var == n * q - s * s
    IN  /\ var # 0
        /\ dev * dev = Z_THRESHOLD * Z_THRESHOLD * var
        /\ ~(n = 10 /\ s = cur /\ q = cur * cur /\ cur \in 1..11)

\* contractHistory.map(tx => Number(tx.getValue().toString())) throws
ValuesThrow(h) == \E i \in 1..Len(h) : h[i].bad = "value"

\* SecurityDetector.detectAnomalies, when it does not throw
detectAnomalies(th, tx, roundsUp) ==
    LET contractHistory == th[tx.receiver]
        n == Len(contractHistory)
    IN  IF n < MIN_HISTORY THEN FALSE
        ELSE ZScoreExceeds(n, SumValue(contractHistory, 1, n),
                           SumSquare(contractHistory, 1, n), tx.value, roundsUp)

\* SecurityDetector.detectAnomalies throws
detectAnomaliesThrows(th, tx) ==
    /\ Len(th[tx.receiver]) >= MIN_HISTORY
    /\ ValuesThrow(th[tx.receiver])

\* SecurityDetector.generateDetails
generateDetails(patterns, isAnomaly) ==
    IF Len(patterns) > 0 /\ isAnomaly
        THEN "Detected patterns; Statistical anomaly detected"
    ELSE IF Len(patterns) > 0 THEN "Detected patterns"
    ELSE IF isAnomaly THEN "Statistical anomaly detected"
    ELSE "No security issues detected."

NoResult == [isAnomaly |-> FALSE, matchedPatterns |-> <<>>,
             riskScore |-> [score |-> 0, level |-> "none"],
             transactionHash |-> Undefined, contractAddress |-> Undefined,
             timestamp |-> 0, details |-> Undefined]

\* The object the catch block of analyzeTransaction returns
DegradedResult(tx, t) ==
    [transactionHash |-> tx.hash, contractAddress |-> tx.receiver,
     isAnomaly |-> FALSE, matchedPatterns |-> <<>>,
     riskScore |-> [score |-> 0, level |-> "unknown"],
     timestamp |-> t, details |-> "Error analyzing transaction"]

\* The catch block of analyzeTransaction: it calls getHash() and
\* getReceiver() on the same transaction again.
analyzeTransactionCatch(th, tx, t) ==
    IF tx.bad \in {"hash", "receiver"}
    THEN [history |-> th, outcome |-> "thrown", result |-> NoResult]
    ELSE [history |-> th, outcome |-> "returned", result |-> DegradedResult(tx, t)]

\* SecurityDetector.analyzeTransaction(transaction, contractCode) at time t:
\* the history it leaves, whether it returned or threw, and what it returned.
analyzeTransaction(th, tx, code, roundsUp, t) ==
    IF tx.bad = "receiver"
    THEN analyzeTransactionCatch(th, tx, t)
    ELSE
      LET th1 == updateTransactionHistory(th, tx)
      IN  IF detectAnomaliesThrows(th1, tx) \/ tx.bad = "hash"
          THEN analyzeTransactionCatch(th1, tx, t)
          ELSE
            LET matchedPatterns == detectKnownPatterns(tx, code)
                isAnomaly == detectAnomalies(th1, tx, roundsUp)
                riskScore == calculateRiskScore(matchedPatterns, isAnomaly)
            IN  [history |-> th1,
                 outcome |-> "returned",
                 result |-> [transactionHash |-> tx.hash,
                             contractAddress |-> tx.receiver,
                             isAnomaly |-> isAnomaly,
                             matchedPatterns |-> matchedPatterns,
                             riskScore |-> riskScore,
                             timestamp |-> t,
                             details |-> generateDetails(matchedPatterns, isAnomaly)]]

-----------------------------------------------------------------------------
(* Transactions and histories of the model *)

\* The payload each transaction hash carries on the network
DataOf(hash) ==
    CASE hash = "tx1" -> "withdraw@00"
      [] hash = "tx2" -> "d2l0aGRyYXc="
      [] OTHER -> "withdraw"

\* The value each transaction hash carries on the network, counted in units
\* of 2^66 base units.  Scaling by a power of two leaves every IEEE-754
\* operation of the z-score unchanged, and the flash-loan threshold 10^20
\* lies strictly between 1 and 2 units.
ValueOf(hash) ==
    CASE hash = "tx1" -> 7
      [] hash = "tx2" -> 0
      [] OTHER -> 4

\* Well-formed Transaction objects: the transactions of the network, sent
\* to either address
GoodTxs ==
    {[hash |-> h, receiver |-> a, value |-> ValueOf(h), data |-> DataOf(h),
      bad |-> "none"] : h \in TxHashes, a \in Addrs}

\* Transaction objects one of whose accessors throws: bad names it, as
\* getReceiver().toString(), getHash().toString() or getValue().toString()
\* ("none": a well-formed object); the field such an accessor would give is
\* never read
BadTxs ==
    {[hash |-> "tx1", receiver |-> Undefined, value |-> 0,
      data |-> DataOf("tx1"), bad |-> "receiver"],
     [hash |-> Undefined, receiver |-> "erd1a", value |-> 0,
      data |-> DataOf("tx1"), bad |-> "hash"],
     [hash |-> "tx1", receiver |-> "erd1a", value |-> 0,
      data |-> DataOf("tx1"), bad |-> "value"]}

\* contractCode handed to analyzeTransaction by a direct caller
DirectCodes == {Undefined, "wasm"}

EmptyHistory == [a \in Addrs |-> <<>>]

\* An earlier transaction of value v to erd1a
EarlierTx(v) ==
    [hash |-> "tx0", receiver |-> "erd1a", value |-> v,
     data |-> DataOf("tx0"), bad |-> "none"]

\* n earlier transactions of value 0
Flat(n) == [i \in 1..n |-> EarlierTx(0)]

\* n earlier transactions of values 2, 4, 2, 4, ...
Alt(n) == [i \in 1..n |-> EarlierTx(IF i % 2 = 0 THEN 4 ELSE 2)]

\* Histories of erd1a a running detector has built up: none, one short of
\* the anomaly check's minimum, twenty, one short of MAX_HISTORY_SIZE
WarmHistories ==
    {<<>>, Flat(MIN_HISTORY - 1), Alt(20), Alt(MAX_HISTORY_SIZE - 1)}

NoTx == [hash |-> Undefined, receiver |-> Undefined, value |-> 0,
         data |-> Undefined, bad |-> "none"]

NoCall == [tx |-> NoTx, code |-> Undefined, observed |-> 0,
           outcome |-> "none", result |-> NoResult]

NoRisk == [patterns |-> <<>>, isAnomaly |-> FALSE,
           result |-> [score |-> 0, level |-> "none"]]

NoOp == [op |-> "none", arg |-> Undefined, ok |-> FALSE]

\* connectToMultiversX returned after a successful attempt: the provider is
\* set and startTransactionPolling has set the poll timer
Connected == [state |-> "connected", retries |-> 0, polling |-> TRUE]

\* cache.get(key) of a key never set, and of a key set to value
NotCached == [present |-> FALSE, value |-> <<>>]
Cached(value) == [present |-> TRUE, value |-> value]

\* Transactions of tx.receiver the detector observed before this call
Observed(th, tx) == IF tx.bad = "receiver" THEN 0 ELSE Len(th[tx.receiver])

\* The record of one analyzeTransaction invocation
CallRecord(th, tx, code, r) ==
    [tx |-> tx, code |-> code, observed |-> Observed(th, tx),
     outcome |-> r.outcome, result |-> r.result]

-----------------------------------------------------------------------------
(* Calls of the risk scorer and of the detector *)

\* A VulnerabilityPattern of the given severity
PatternOf(severity) == [id |-> severity, severity |-> severity]

\* Pattern lists of at most n patterns
PatternLists(n) ==
    UNION {[1..k -> {PatternOf(sev) : sev \in Severities}] : k \in 0..n}

\* calculateRiskScore(patterns, isAnomaly)
CalculateRiskScore(patterns, isAnomaly) ==
    /\ risk' = [patterns |-> patterns, isAnomaly |-> isAnomaly,
                result |-> calculateRiskScore(patterns, isAnomaly)]
    /\ lastOp' = [op |-> "calculateRiskScore", arg |-> Undefined, ok |-> TRUE]
    /\ UNCHANGED <<aiVars, connectVars, transactionVars,
                   detectorVars, monitorVars, storeVars, registryVars, now>>

\* The roundings the z-score of tx can take: both where the exact quotient
\* is 3 and the double was not evaluated, else the one of exact arithmetic
Roundings(th, tx) ==
    IF tx.bad = "receiver" THEN {FALSE}
    ELSE LET h == updateTransactionHistory(th, tx)[tx.receiver]
             n == Len(h)
         IN  IF n < MIN_HISTORY \/ ValuesThrow(h) THEN {FALSE}
             ELSE IF OpenTie(n, SumValue(h, 1, n), SumSquare(h, 1, n), tx.value)
                  THEN BOOLEAN
                  ELSE {FALSE}

\* securityDetector.analyzeTransaction(tx, code)
AnalyzeTransaction(tx, code) ==
    /\ calls < MaxTx
    /\ \E roundsUp \in Roundings(transactionHistory, tx) :
         LET r == analyzeTransaction(transactionHistory, tx, code, roundsUp, now)
         IN  /\ transactionHistory' = r.history
             /\ lastCall' = CallRecord(transactionHistory, tx, code, r)
             /\ lastOp' = [op |-> "analyzeTransaction", arg |-> Undefined,
                           ok |-> r.outcome = "returned"]
    /\ calls' = calls + 1
    /\ UNCHANGED <<aiVars, connectVars, transactionVars,
                   risk, monitorVars, storeVars, registryVars, now>>

\* The state a constructed system starts in, given the detector's history
InitWith(histories) ==
    /\ transactionHistory \in
          {[EmptyHistory EXCEPT !["erd1a"] = h] : h \in histories}
    /\ calls = 0
    /\ lastCall = NoCall
    /\ risk = NoRisk
    /\ monitoredContracts = {}
    /\ inFlight = <<>>
    /\ savedContracts = NotCached
    /\ alerts = <<>>
    /\ nextAlertId = 1
    /\ persisted = NotCached
    /\ loadRead = [pending |-> TRUE, cached |-> NotCached]
    /\ allocated = <<>>
    /\ lastProcessedTxHashes = [a \in Addrs |-> Undefined]
    /\ contracts = <<>>
    /\ savedContractList = NotCached
    /\ tasks = <<>>
    /\ analysisCache = {}
    /\ aiCalls = <<>>
    /\ gemini = [enabled |-> TRUE, cache |-> {}]
    /\ connection = Connected
    /\ reachable = TRUE
    /\ analyzedTransactions = {}
    /\ txTasks = <<>>
    /\ now = 0
    /\ lastOp = NoOp

InitScoring == InitWith({<<>>})

NextScoring ==
    \E patterns \in PatternLists(MaxPatterns), isAnomaly \in BOOLEAN :
        CalculateRiskScore(patterns, isAnomaly)

SpecScoring == InitScoring /\ [][NextScoring]_vars

InitDetector == InitWith(WarmHistories)

NextDetector ==
    \E tx \in GoodTxs \cup BadTxs, code \in DirectCodes :
        AnalyzeTransaction(tx, code)

SpecDetector == InitDetector /\ [][NextDetector]_vars

-----------------------------------------------------------------------------
(* AlertService: src/src/services/alert.service.ts *)

\* String(n) of a number n >= 0: its decimal digits
RECURSIVE Decimal(_)
Decimal(n) == IF n < 10 THEN <<n>> ELSE Append(Decimal(n \div 10), n % 10)

\* parseInt(digits, 10)
RECURSIVE parseInt(_)
parseInt(digits) ==
    IF digits = <<>> THEN 0
    ELSE 10 * parseInt(SubSeq(digits, 1, Len(digits) - 1)) + digits[Len(digits)]

\* The id `alert-${Date.now()}-${this.nextAlertId++}`, as the parts that its
\* dashes separate
AlertId(t, n) == <<"alert", Decimal(t), Decimal(n)>>

\* idParts[idParts.length - 1] of a.id.split('-')
LastPart(id) == id[Len(id)]

\* An id no alert carries
AbsentId == AlertId(0, 0)

\* resolutionNotes a caller passes to resolveAlert
Notes == {"false positive", "patched"}

\* this.alerts.has(id), this.alerts.get(id)
MapHas(m, id) == \E i \in DOMAIN m : m[i].id = id
MapIndex(m, id) == CHOOSE i \in DOMAIN m : m[i].id = id

\* this.alerts.set(id, alert): a known key keeps its place, a new key goes last
MapSet(m, alert) ==
    IF MapHas(m, alert.id)
    THEN [m EXCEPT ![MapIndex(m, alert.id)] = alert]
    ELSE Append(m, alert)

\* this.alerts.delete(id)
MapDelete(m, id) == SelectSeq(m, LAMBDA a : a.id # id)

\* createAlert without its resolved: false
NewAlert_InputResolved(input, id) ==
    [id |-> id,
     contractAddress |-> input.contractAddress,
     transactionHash |-> input.transactionHash,
     riskScore |-> input.riskScore,
     details |-> input.details,
     timestamp |-> input.timestamp,
     patternIds |-> input.patternIds,
     resolved |-> input.resolved,
     resolutionNotes |-> input.resolutionNotes]

\* { ...alert, id, resolved: false }
NewAlert(input, id) ==
    [id |-> id,
     contractAddress |-> input.contractAddress,
     transactionHash |-> input.transactionHash,
     riskScore |-> input.riskScore,
     details |-> input.details,
     timestamp |-> input.timestamp,
     patternIds |-> input.patternIds,
     resolved |-> FALSE,
     resolutionNotes |-> input.resolutionNotes]

\* What a direct caller of createAlert may pass, at time t
DirectAlertInputs(t) ==
    {[contractAddress |-> "erd1a", transactionHash |-> "tx1",
      riskScore |-> [score |-> 80, level |-> "critical"],
      details |-> "reported", timestamp |-> t, patternIds |-> <<>>,
      resolved |-> r, resolutionNotes |-> Undefined] : r \in BOOLEAN}

\* saveAlerts that writes the open alerts only
saveAlerts_OpenOnly(m) == Cached(SelectSeq(m, LAMBDA a : ~a.resolved))

\* saveAlerts: the array of the map's values, held by reference in the cache
saveAlerts(m) == Cached(m)

\* AlertService.createAlert, its state changes
createAlert(input) ==
    /\ Len(allocated) < MaxAlerts
    /\ alerts' = MapSet(alerts, NewAlert(input, AlertId(now, nextAlertId)))
    /\ nextAlertId' = nextAlertId + 1
    /\ allocated' = Append(allocated, nextAlertId)
    /\ persisted' = saveAlerts(alerts')
    /\ UNCHANGED loadRead

\* alertService.createAlert(input) called directly
CreateAlert(input) ==
    /\ ~loadRead.pending
    /\ createAlert(input)
    /\ lastOp' = [op |-> "createAlert", arg |-> input.resolved, ok |-> TRUE]
    /\ lastCall' = NoCall
    /\ UNCHANGED <<aiVars, connectVars, transactionVars,
                   transactionHistory, calls, risk, monitorVars, registryVars, now>>

\* resolveAlert that leaves an alert already resolved as it is
resolve_KeepsNotes(alert, notes) ==
    IF alert.resolved THEN alert
    ELSE [alert EXCEPT !.resolved = TRUE, !.resolutionNotes = notes]

\* alert.resolved = true; alert.resolutionNotes = resolutionNotes
resolve(alert, notes) ==
    [alert EXCEPT !.resolved = TRUE, !.resolutionNotes = notes]

\* resolveAlert that stores an alert under an id it does not find
resolveAlert_Upsert(m, id, notes) ==
    IF MapHas(m, id)
    THEN MapSet(m, resolve(m[MapIndex(m, id)], notes))
    ELSE Append(m, [id |-> id, contractAddress |-> Undefined,
                    transactionHash |-> Undefined,
                    riskScore |-> [score |-> 0, level |-> "none"],
                    details |-> Undefined, timestamp |-> 0, patternIds |-> <<>>,
                    resolved |-> TRUE, resolutionNotes |-> notes])

\* resolveAlert, its change of this.alerts: none when the id is not found
resolveAlert(m, id, notes) ==
    IF MapHas(m, id)
    THEN MapSet(m, resolve(m[MapIndex(m, id)], notes))
    ELSE m

\* AlertService.resolveAlert(id, resolutionNotes); lastOp keeps the alert as
\* it was before the call, or the null the call returned
ResolveAlert(id, notes) ==
    /\ ~loadRead.pending
    /\ alerts' = resolveAlert(alerts, id, notes)
    /\ IF MapHas(alerts, id)
       THEN /\ persisted' = saveAlerts(alerts')
            /\ lastOp' = [op |-> "resolveAlert",
                          arg |-> [id |-> id, notes |-> notes,
                                   before |-> alerts[MapIndex(alerts, id)]],
                          ok |-> TRUE]
       ELSE /\ UNCHANGED persisted
            /\ lastOp' = [op |-> "resolveAlert",
                          arg |-> [id |-> id, notes |-> notes, returned |-> Null],
                          ok |-> FALSE]
    /\ lastCall' = NoCall
    /\ UNCHANGED <<aiVars, connectVars, transactionVars,
                   transactionHistory, calls, risk, monitorVars, registryVars,
                   nextAlertId, loadRead, allocated, now>>

\* AlertService.deleteAlert(id)
DeleteAlert(id) ==
    /\ ~loadRead.pending
    /\ IF MapHas(alerts, id)
       THEN /\ alerts' = MapDelete(alerts, id)
            /\ persisted' = saveAlerts(alerts')
       ELSE UNCHANGED <<alerts, persisted>>
    /\ lastOp' = [op |-> "deleteAlert", arg |-> id, ok |-> MapHas(alerts, id)]
    /\ lastCall' = NoCall
    /\ UNCHANGED <<aiVars, connectVars, transactionVars,
                   transactionHistory, calls, risk, monitorVars, registryVars,
                   nextAlertId, loadRead, allocated, now>>

\* loadAlerts: alerts.forEach(alert => this.alerts.set(alert.id, alert))
RECURSIVE LoadInto(_, _)
LoadInto(m, loaded) ==
    IF loaded = <<>> THEN m
    ELSE LoadInto(MapSet(m, Head(loaded)), Tail(loaded))

\* loadAlerts that takes the number of loaded alerts for the largest suffix
MaxSuffix_Count(loaded) == Len(loaded)

\* loadAlerts: Math.max(...alerts.map(a => parseInt(last part of a.id)), 0)
RECURSIVE MaxSuffix(_)
MaxSuffix(loaded) ==
    IF loaded = <<>> THEN 0
    ELSE Max(parseInt(LastPart(Head(loaded).id)), MaxSuffix(Tail(loaded)))

\* The continuation of loadAlerts after its await.  The constructor started
\* loadAlerts, which read the cache at once; the continuation is a microtask,
\* so it runs before any request, timer or event reaches the services: every
\* other action waits for it.
LoadAlerts ==
    /\ loadRead.pending
    /\ IF loadRead.cached.present
       THEN /\ alerts' = LoadInto(alerts, loadRead.cached.value)
            /\ nextAlertId' = MaxSuffix(loadRead.cached.value) + 1
       ELSE UNCHANGED <<alerts, nextAlertId>>
    /\ loadRead' = [loadRead EXCEPT !.pending = FALSE]
    /\ lastOp' = [op |-> "loadAlerts", arg |-> Undefined, ok |-> loadRead.cached.present]
    /\ lastCall' = NoCall
    /\ UNCHANGED <<aiVars, connectVars, transactionVars,
                   transactionHistory, calls, risk, monitorVars, registryVars,
                   persisted, allocated, now>>

\* Date.now() advances
Tick ==
    /\ ~loadRead.pending
    /\ now < MaxClock
    /\ now' = now + 1
    /\ lastOp' = [op |-> "tick", arg |-> Undefined, ok |-> TRUE]
    /\ lastCall' = NoCall
    /\ UNCHANGED <<aiVars, connectVars, transactionVars,
                   transactionHistory, calls, risk, monitorVars, storeVars, registryVars>>

\* Ids a caller may name: those of the alerts held, and one of no alert
KnownIds == {alerts[i].id : i \in DOMAIN alerts} \cup {AbsentId}

-----------------------------------------------------------------------------
(* BlockchainService, the polling variant: src/unnamed/part_014 *)

\* provider.getAccount(address) in addContractToMonitor: the account has
\* code, has none, or the request (or new Address) throws
AccountAnswers == {"contract", "plain", "error"}

\* BlockchainService.addContractToMonitor(contractAddress)
AddContractToMonitor(contractAddress, account) ==
    /\ ~loadRead.pending
    /\ monitoredContracts' =
          IF account = "contract"
          THEN monitoredContracts \cup {contractAddress}
          ELSE monitoredContracts
    /\ savedContracts' =
          IF account = "contract" THEN Cached(monitoredContracts')
          ELSE savedContracts
    /\ lastOp' = [op |-> "addContractToMonitor", arg |-> contractAddress,
                  ok |-> account = "contract"]
    /\ lastCall' = NoCall
    /\ UNCHANGED <<aiVars, connectVars, transactionVars,
                   transactionHistory, calls, risk, inFlight, lastProcessedTxHashes,
                   storeVars, registryVars, now>>

\* removeContract that leaves the address in the monitored set
removeContractFromMonitor_Keeps(monitored, address) == monitored

\* removeContractFromMonitor: this.monitoredContracts.delete(contractAddress)
removeContractFromMonitor(monitored, address) == monitored \ {address}

\* BlockchainService.removeContractFromMonitor(contractAddress)
RemoveContractFromMonitor(contractAddress) ==
    /\ ~loadRead.pending
    /\ monitoredContracts' =
          removeContractFromMonitor(monitoredContracts, contractAddress)
    /\ savedContracts' =
          IF contractAddress \in monitoredContracts
          THEN Cached(monitoredContracts')
          ELSE savedContracts
    /\ lastOp' = [op |-> "removeContractFromMonitor", arg |-> contractAddress,
                  ok |-> contractAddress \in monitoredContracts]
    /\ lastCall' = NoCall
    /\ UNCHANGED <<aiVars, connectVars, transactionVars,
                   transactionHistory, calls, risk, inFlight, lastProcessedTxHashes,
                   storeVars, registryVars, now>>

\* processTransactionEvent with the anomaly left out of its condition
IssueFound_PatternsOnly(result) == Len(result.matchedPatterns) > 0

\* analysisResult.matchedPatterns.length > 0 || analysisResult.isAnomaly
IssueFound(result) == Len(result.matchedPatterns) > 0 \/ result.isAnomaly

\* transactionData handed to processTransactionEvent
Events == [txHash : TxHashes, receiver : Addrs]

\* getContractCode: null when the request fails, else account.code
FetchedCodes == {Null, "wasm"}

\* The Transaction built from provider.getTransaction(txHash)
NetworkTransaction(txHash) ==
    [hash |-> txHash,
     receiver |-> IF txHash = "tx3" THEN "erd1b" ELSE "erd1a",
     value |-> ValueOf(txHash),
     data |-> DataOf(txHash),
     bad |-> "none"]

\* The argument of the createAlert call of processTransactionEvent
EventAlertInput(event, result, t) ==
    [contractAddress |-> event.receiver,
     transactionHash |-> event.txHash,
     riskScore |-> result.riskScore,
     details |-> result.details,
     timestamp |-> t,
     patternIds |-> [i \in DOMAIN result.matchedPatterns |-> result.matchedPatterns[i].id],
     resolved |-> FALSE,
     resolutionNotes |-> Undefined]

\* processTransactionEvent up to its first await: the monitored check
ReceiveTransactionEvent(event) ==
    /\ ~loadRead.pending
    /\ calls + Len(inFlight) < MaxTx
    /\ Len(inFlight) < MaxInFlight
    /\ inFlight' =
          IF event.receiver \in monitoredContracts
          THEN Append(inFlight, event)
          ELSE inFlight
    /\ lastOp' = [op |-> "receiveTransactionEvent", arg |-> event,
                  ok |-> event.receiver \in monitoredContracts]
    /\ lastCall' = NoCall
    /\ UNCHANGED <<aiVars, connectVars, transactionVars,
                   transactionHistory, calls, risk, monitoredContracts,
                   savedContracts, lastProcessedTxHashes, storeVars, registryVars, now>>

RemoveAt(s, i) == SubSeq(s, 1, i - 1) \o SubSeq(s, i + 1, Len(s))

\* What the awaits of processTransactionEvent gave: the transaction or null,
\* the contract code or null, the network config or an exception
NetworkAnswers == [fetched : BOOLEAN, contractCode : FetchedCodes, configured : BOOLEAN]

\* processTransactionEvent after its awaits
ProcessTransactionEvent(i, answer) ==
    /\ ~loadRead.pending
    /\ i \in DOMAIN inFlight
    /\ inFlight' = RemoveAt(inFlight, i)
    /\ LET event == inFlight[i]
           transaction == NetworkTransaction(event.txHash)
           analysed == /\ answer.fetched
                       /\ answer.configured
                       /\ answer.contractCode # Null
       IN  IF analysed
           THEN \E roundsUp \in Roundings(transactionHistory, transaction) :
                  LET r == analyzeTransaction(transactionHistory, transaction,
                                              answer.contractCode, roundsUp, now)
                  IN  /\ transactionHistory' = r.history
                      /\ calls' = calls + 1
                      /\ lastCall' = CallRecord(transactionHistory, transaction,
                                                answer.contractCode, r)
                      /\ IF r.outcome = "returned" /\ IssueFound(r.result)
                         THEN createAlert(EventAlertInput(event, r.result, now))
                         ELSE UNCHANGED storeVars
                      /\ lastOp' = [op |-> "processTransactionEvent",
                                    arg |-> event, ok |-> TRUE]
           ELSE /\ lastCall' = NoCall
                /\ lastOp' = [op |-> "processTransactionEvent",
                              arg |-> event, ok |-> FALSE]
                /\ UNCHANGED <<transactionHistory, calls, storeVars>>
    /\ UNCHANGED <<aiVars, connectVars, transactionVars,
                   risk, monitoredContracts, savedContracts, lastProcessedTxHashes,
                   registryVars, now>>

-----------------------------------------------------------------------------
(* BlockchainService connection setup: src/unnamed/part_014 *)

\* connectToMultiversX: const maxRetries = 3
MAX_RETRIES == 3

\* setTimeout(resolve, 2000) after a failed attempt
BACKOFF_MS == 2000

\* The service before Nest calls onModuleInit
NotConnected == [state |-> "init", retries |-> 0, polling |-> FALSE]

\* onModuleInit: connectToMultiversX enters its loop, sets the provider and
\* asks it for the network config
OnModuleInit ==
    /\ connection.state = "init"
    /\ connection' = [connection EXCEPT !.state = "requesting"]
    /\ lastOp' = [op |-> "onModuleInit", arg |-> [attempt |-> 1], ok |-> TRUE]
    /\ lastCall' = NoCall
    /\ UNCHANGED <<aiVars, reachable, transactionVars, transactionHistory,
                   calls, risk, monitorVars, storeVars, registryVars, now>>

\* provider.getNetworkConfig answered.  With the config, polling is started,
\* the saved contracts are loaded and connectToMultiversX returns; with an
\* error, retries is raised and the wait of BACKOFF_MS starts.
NetworkConfigAnswered ==
    /\ connection.state = "requesting"
    /\ IF reachable
       THEN /\ connection' = [connection EXCEPT !.state = "connected",
                                                !.polling = TRUE]
            /\ monitoredContracts' =
                  IF savedContracts.present
                  THEN monitoredContracts \cup savedContracts.value
                  ELSE monitoredContracts
       ELSE /\ connection' = [connection EXCEPT !.state = "waiting",
                                                !.retries = @ + 1]
            /\ UNCHANGED monitoredContracts
    /\ lastOp' = [op |-> "getNetworkConfig",
                  arg |-> [attempt |-> connection.retries + 1,
                           delay |-> BACKOFF_MS],
                  ok |-> reachable]
    /\ lastCall' = NoCall
    /\ UNCHANGED <<aiVars, reachable, transactionVars, transactionHistory,
                   calls, risk, inFlight, savedContracts, lastProcessedTxHashes,
                   storeVars, registryVars, now>>

\* The wait after a failed attempt is over: the loop asks again while
\* retries < maxRetries, else it logs the failure and connectToMultiversX
\* returns without having started the polling
BackoffElapsed ==
    /\ connection.state = "waiting"
    /\ connection' =
          [connection EXCEPT !.state =
              IF connection.retries < MAX_RETRIES THEN "requesting" ELSE "failed"]
    /\ lastOp' = [op |-> "backoffElapsed",
                  arg |-> [attempt |-> connection.retries + 1],
                  ok |-> connection.retries < MAX_RETRIES]
    /\ lastCall' = NoCall
    /\ UNCHANGED <<aiVars, reachable, transactionVars, transactionHistory,
                   calls, risk, monitorVars, storeVars, registryVars, now>>

\* The provider becomes reachable or unreachable
ProviderChanges ==
    /\ reachable' = ~reachable
    /\ lastOp' = [op |-> "providerChanges", arg |-> [reachable |-> ~reachable],
                  ok |-> TRUE]
    /\ lastCall' = NoCall
    /\ UNCHANGED <<aiVars, connection, transactionVars, transactionHistory,
                   calls, risk, monitorVars, storeVars, registryVars, now>>

-----------------------------------------------------------------------------
(* BlockchainService polling: src/unnamed/part_014 *)

\* What the indexer names as the latest transaction of an address: a hash,
\* or nothing (no transaction, or the request failed)
LatestAnswers == TxHashes \cup {Undefined}

\* pollTransactions for one monitored address, from the answer of
\* fetchLatestTransaction to the monitored check of processTransactionEvent;
\* fetched tells whether the getTransaction between the two gave the
\* transaction.  A hash equal to the last one processed for the address is
\* dropped.
PollTransactions(address, latest, fetched) ==
    /\ ~loadRead.pending
    /\ connection.polling
    /\ address \in monitoredContracts
    /\ calls + Len(inFlight) < MaxPolls
    /\ Len(inFlight) < MaxInFlight
    /\ IF latest = Undefined \/ latest = lastProcessedTxHashes[address]
       THEN /\ UNCHANGED <<lastProcessedTxHashes, inFlight>>
            /\ lastOp' = [op |-> "pollTransactions",
                          arg |-> [txHash |-> latest, receiver |-> address],
                          ok |-> FALSE]
       ELSE /\ lastProcessedTxHashes' =
                  [lastProcessedTxHashes EXCEPT ![address] = latest]
            /\ inFlight' =
                  IF fetched
                  THEN Append(inFlight, [txHash |-> latest, receiver |-> address])
                  ELSE inFlight
            /\ lastOp' = [op |-> "pollTransactions",
                          arg |-> [txHash |-> latest, receiver |-> address],
                          ok |-> fetched]
    /\ lastCall' = NoCall
    /\ UNCHANGED <<aiVars, connectVars, transactionVars,
                   transactionHistory, calls, risk, monitoredContracts,
                   savedContracts, storeVars, registryVars, now>>

-----------------------------------------------------------------------------
(* ContractService: src/src/services/github.service.ts *)

\* this.contracts.has(address), this.contracts.get(address)
contractsHas(m, address) == \E i \in DOMAIN m : m[i].address = address
contractsGet(m, address) == m[CHOOSE i \in DOMAIN m : m[i].address = address]

\* this.contracts.set(address, contract): a known key keeps its place
contractsSet(m, contract) ==
    IF contractsHas(m, contract.address)
    THEN [i \in DOMAIN m |->
             IF m[i].address = contract.address THEN contract ELSE m[i]]
    ELSE Append(m, contract)

\* this.contracts.delete(address)
contractsDelete(m, address) == SelectSeq(m, LAMBDA c : c.address # address)

\* new Contract({address, name, addedAt: new Date(), isVerified: false,
\* alertCount: 0, highRiskAlerts: 0, tags: []})
NewContract(address, name, t) ==
    [address |-> address,
     name |-> name,
     addedAt |-> t,
     lastAnalyzedAt |-> <<>>,
     securityScore |-> <<>>,
     isVerified |-> FALSE,
     alertCount |-> 0,
     highRiskAlerts |-> 0,
     tags |-> <<>>]

\* saveContracts: the array of the map's values under CACHE.KEYS.CONTRACT_LIST
saveContracts(m) == Cached(m)

\* addContract that does not look for the address in the map
AlreadyMonitored_Never(m, address) == FALSE

\* addContract: if (this.contracts.has(address))
AlreadyMonitored(m, address) == contractsHas(m, address)

\* ContractService.addContract(address, name) up to its first await: the
\* existing contract returned, or a new one stored and addContractToMonitor
\* started, which waits for provider.getAccount
AddContract(address, name) ==
    /\ ~loadRead.pending
    /\ IF AlreadyMonitored(contracts, address)
       THEN /\ UNCHANGED <<contracts, tasks>>
            /\ lastOp' = [op |-> "addContract",
                          arg |-> [address |-> address,
                                   returned |-> contractsGet(contracts, address)],
                          ok |-> FALSE]
       ELSE /\ Len(tasks) < MaxTasks
            /\ contracts' = contractsSet(contracts, NewContract(address, name, now))
            /\ tasks' = Append(tasks, [address |-> address, stage |-> "registering"])
            /\ lastOp' = [op |-> "addContract",
                          arg |-> [address |-> address,
                                   returned |-> NewContract(address, name, now)],
                          ok |-> TRUE]
    /\ lastCall' = NoCall
    /\ UNCHANGED <<aiVars, connectVars, transactionVars,
                   transactionHistory, calls, risk, monitorVars, storeVars,
                   savedContractList, analysisCache, now>>

\* addContract after provider.getAccount answered: addContractToMonitor
\* finishes, saveContracts runs, analyzeContract starts and waits for the
\* contract code
ContractRegistered(i, account) ==
    /\ ~loadRead.pending
    /\ i \in DOMAIN tasks
    /\ tasks[i].stage = "registering"
    /\ monitoredContracts' =
          IF account = "contract"
          THEN monitoredContracts \cup {tasks[i].address}
          ELSE monitoredContracts
    /\ savedContracts' =
          IF account = "contract" THEN Cached(monitoredContracts')
          ELSE savedContracts
    /\ savedContractList' = saveContracts(contracts)
    /\ tasks' = [tasks EXCEPT ![i].stage = "fetching"]
    /\ lastOp' = [op |-> "contractRegistered",
                  arg |-> [address |-> tasks[i].address],
                  ok |-> account = "contract"]
    /\ lastCall' = NoCall
    /\ UNCHANGED <<aiVars, connectVars, transactionVars,
                   transactionHistory, calls, risk, inFlight, lastProcessedTxHashes,
                   storeVars, contracts, analysisCache, now>>

\* analyzeContract after getContractCode answered: without code it throws,
\* which addContract logs; with a cached analysis it returns that (lastOp
\* keeps this as cached); else it asks the AI collaborator
CodeFetched(i, contractCode) ==
    /\ ~loadRead.pending
    /\ i \in DOMAIN tasks
    /\ tasks[i].stage = "fetching"
    /\ tasks' =
          IF contractCode = Null \/ tasks[i].address \in analysisCache
          THEN RemoveAt(tasks, i)
          ELSE [tasks EXCEPT ![i].stage = "analysing"]
    /\ lastOp' = [op |-> "codeFetched",
                  arg |-> [address |-> tasks[i].address,
                           cached |-> /\ contractCode # Null
                                      /\ tasks[i].address \in analysisCache],
                  ok |-> contractCode # Null]
    /\ lastCall' = NoCall
    /\ UNCHANGED <<aiVars, connectVars, transactionVars,
                   transactionHistory, calls, risk, monitorVars, storeVars,
                   contracts, savedContractList, analysisCache, now>>

\* analysis.aiAnalysis.risk_score as analyzeSmartContract gave it: <<>> when
\* the call failed or gave no score, else the score
RiskScores == {<<>>, <<0>>, <<70>>}

\* updateContractAfterAnalysis that stores a contract it does not find
updateContractAfterAnalysis_Upsert(m, address, riskScore, t) ==
    contractsSet(m, [NewContract(address, Undefined, t) EXCEPT
                        !.lastAnalyzedAt = <<t>>,
                        !.securityScore = riskScore])

\* updateContractAfterAnalysis, its change of this.contracts
updateContractAfterAnalysis(m, address, riskScore, t) ==
    IF ~contractsHas(m, address) THEN m
    ELSE contractsSet(m, [contractsGet(m, address) EXCEPT
                             !.lastAnalyzedAt = <<t>>,
                             !.securityScore =
                                 IF Given(riskScore) /\ riskScore[1] # 0
                                 THEN riskScore
                                 ELSE @])

\* analyzeContract after analyzeSmartContract answered:
\* updateContractAfterAnalysis, then the analysis is cached and returned
AnalysisCompleted(i, riskScore) ==
    /\ ~loadRead.pending
    /\ i \in DOMAIN tasks
    /\ tasks[i].stage = "analysing"
    /\ contracts' = updateContractAfterAnalysis(contracts, tasks[i].address,
                                                 riskScore, now)
    /\ savedContractList' =
          IF contractsHas(contracts, tasks[i].address)
          THEN saveContracts(contracts')
          ELSE savedContractList
    /\ analysisCache' = analysisCache \cup {tasks[i].address}
    /\ tasks' = RemoveAt(tasks, i)
    /\ lastOp' = [op |-> "analysisCompleted",
                  arg |-> [address |-> tasks[i].address, riskScore |-> riskScore],
                  ok |-> TRUE]
    /\ lastCall' = NoCall
    /\ UNCHANGED <<aiVars, connectVars, transactionVars,
                   transactionHistory, calls, risk, monitorVars, storeVars, now>>

\* ContractService.removeContract(address); lastOp keeps whether the address
\* was monitored before the call
RemoveContract(address) ==
    /\ ~loadRead.pending
    /\ IF ~contractsHas(contracts, address)
       THEN UNCHANGED <<contracts, monitoredContracts, savedContracts,
                        savedContractList>>
       ELSE /\ contracts' = contractsDelete(contracts, address)
            /\ monitoredContracts' =
                  removeContractFromMonitor(monitoredContracts, address)
            /\ savedContracts' =
                  IF address \in monitoredContracts
                  THEN Cached(monitoredContracts')
                  ELSE savedContracts
            /\ savedContractList' = saveContracts(contracts')
    /\ lastOp' = [op |-> "removeContract",
                  arg |-> [address |-> address,
                           monitored |-> address \in monitoredContracts],
                  ok |-> contractsHas(contracts, address)]
    /\ lastCall' = NoCall
    /\ UNCHANGED <<aiVars, connectVars, transactionVars,
                   transactionHistory, calls, risk, inFlight, lastProcessedTxHashes,
                   storeVars, tasks, analysisCache, now>>

\* updates handed to updateContract: a name and no tags, tags and no name
ContractUpdates ==
    {[name |-> <<"vault">>, tags |-> <<>>],
     [name |-> <<>>, tags |-> <<<<"defi">>>>]}

\* ContractService.updateContract(address, updates)
UpdateContract(address, updates) ==
    /\ ~loadRead.pending
    /\ IF ~contractsHas(contracts, address)
       THEN UNCHANGED <<contracts, savedContractList>>
       ELSE /\ contracts' =
                  contractsSet(contracts,
                      [contractsGet(contracts, address) EXCEPT
                          !.name = IF Given(updates.name) THEN updates.name[1] ELSE @,
                          !.tags = IF Given(updates.tags) THEN updates.tags[1] ELSE @])
            /\ savedContractList' = saveContracts(contracts')
    /\ lastOp' = [op |-> "updateContract", arg |-> [address |-> address],
                  ok |-> contractsHas(contracts, address)]
    /\ lastCall' = NoCall
    /\ UNCHANGED <<aiVars, connectVars, transactionVars,
                   transactionHistory, calls, risk, monitorVars, storeVars,
                   tasks, analysisCache, now>>

\* incrementAlertCount that counts a high-risk alert as high-risk only
incrementAlertCount_HighOnly(contract, isHighRisk) ==
    IF isHighRisk
    THEN [contract EXCEPT !.highRiskAlerts = @ + 1]
    ELSE [contract EXCEPT !.alertCount = @ + 1]

\* contract.alertCount++; if (isHighRisk) contract.highRiskAlerts++
incrementAlertCount(contract, isHighRisk) ==
    [contract EXCEPT !.alertCount = @ + 1,
                     !.highRiskAlerts = IF isHighRisk THEN @ + 1 ELSE @]

\* ContractService.incrementAlertCount(address, isHighRisk)
IncrementAlertCount(address, isHighRisk) ==
    /\ ~loadRead.pending
    /\ IF ~contractsHas(contracts, address)
       THEN UNCHANGED <<contracts, savedContractList>>
       ELSE /\ contractsGet(contracts, address).alertCount < MaxCount
            /\ contracts' =
                  contractsSet(contracts,
                      incrementAlertCount(contractsGet(contracts, address), isHighRisk))
            /\ savedContractList' = saveContracts(contracts')
    /\ lastOp' = [op |-> "incrementAlertCount",
                  arg |-> [address |-> address, isHighRisk |-> isHighRisk],
                  ok |-> contractsHas(contracts, address)]
    /\ lastCall' = NoCall
    /\ UNCHANGED <<aiVars, connectVars, transactionVars,
                   transactionHistory, calls, risk, monitorVars, storeVars,
                   tasks, analysisCache, now>>

-----------------------------------------------------------------------------
(* GeminiService.analyzeSmartContract (src/unnamed/part_003, the variant   *)
(* with the rate-limit retry) and SecurityDetector.analyzeContract          *)

\* setTimeout(resolve, 5000) before the retry of a rate-limited request
RETRY_DELAY_MS == 5000

\* What model.generateContent gave: a text holding a JSON object, a text
\* holding none, a 429 error, or another error
GenerateAnswers == {"analysis", "noJson", "rateLimited", "error"}

\* The parsed JSON objects explored: the vulnerabilities the provider lists.
\* No explored object has a securityScore or a summary field.
Analyses ==
    {[vulnerabilities |-> <<>>],
     [vulnerabilities |-> << [severity |-> "Critical"] >>]}

\* getCacheKey: contractAddress + ':' + base64(contractCode).  base64 text
\* holds no ':', so two keys are equal exactly when both parts are.
getCacheKey(contractAddress, contractCode) == <<contractAddress, contractCode>>

\* The falsy strings of `!contractAddress || !contractCode`
Missing(str) == str = ""

\* analyzeSmartContract up to its request: <<>> when it goes on to
\* model.generateContent, else << result >>, the result being <<>> for null
\* and << analysis >> for a cached analysis
analyzeSmartContractEarly(g, contractAddress, contractCode) ==
    IF ~g.enabled THEN << <<>> >>
    ELSE IF Missing(contractAddress) \/ Missing(contractCode) THEN << <<>> >>
    ELSE IF \E e \in g.cache : e.key = getCacheKey(contractAddress, contractCode)
         THEN << << (CHOOSE e \in g.cache :
                        e.key = getCacheKey(contractAddress, contractCode)).value >> >>
    ELSE <<>>

\* SecurityScoring.getRiskLevel
getRiskLevel(score) ==
    IF score >= 90 THEN "Low Risk"
    ELSE IF score >= 70 THEN "Moderate Risk"
    ELSE IF score >= 40 THEN "High Risk"
    ELSE "Critical Risk"

\* The results of the four detect(mockTransaction, fileName) calls.  Each
\* detector catches its own errors and returns a boolean; the analysis of
\* the file name as contract code is left open.
DetectorResults ==
    [reentrancy : BOOLEAN, overflow : BOOLEAN,
     accessControl : BOOLEAN, flashloan : BOOLEAN]

\* analyzeContract from the answer of analyzeSmartContract on: the
\* detectors run, then fullAnalysis.vulnerabilities is read, which throws a
\* TypeError when fullAnalysis is null
analyzeContractResult(fullAnalysis, detectors) ==
    IF ~Given(fullAnalysis)
    THEN [outcome |-> "threw", detectors |-> <<>>,
          securityScore |-> <<>>, riskLevel |-> <<>>]
    ELSE LET securityScore ==
                 calculateSecurityScore(fullAnalysis[1].vulnerabilities)
         IN  [outcome |-> "returned", detectors |-> <<detectors>>,
              securityScore |-> <<securityScore>>,
              riskLevel |-> <<getRiskLevel(securityScore)>>]

\* The end of one analyzeContract invocation, as lastOp keeps it
AnalyzeContractDone(contractId, attempts, fullAnalysis, detectors) ==
    LET r == analyzeContractResult(fullAnalysis, detectors)
    IN  lastOp' = [op |-> "analyzeContract",
                   arg |-> [contractId |-> contractId, attempts |-> attempts,
                            fullAnalysis |-> fullAnalysis, result |-> r],
                   ok |-> r.outcome = "returned"]

ContractIds == {"c1"}
ContractCodes == {"withdraw@00"}
FileNames == {"token.rs", ""}

\* SecurityDetector.analyzeContract(contractId, contractCode, fileName) up
\* to the request of analyzeSmartContract(contractCode, fileName), or to its
\* end when that call returns without a request
AnalyzeContract(contractId, contractCode, fileName) ==
    /\ Len(aiCalls) < MaxAiCalls
    /\ LET early == analyzeSmartContractEarly(gemini, contractCode, fileName)
       IN  IF Given(early)
           THEN /\ \E detectors \in DetectorResults :
                      AnalyzeContractDone(contractId, 0, early[1], detectors)
                /\ UNCHANGED aiCalls
           ELSE /\ aiCalls' = Append(aiCalls,
                                     [contractId |-> contractId,
                                      contractAddress |-> contractCode,
                                      contractCode |-> fileName,
                                      attempts |-> 1, stage |-> "generating"])
                /\ lastOp' = [op |-> "analyzeContractStarted",
                              arg |-> [contractId |-> contractId], ok |-> TRUE]
    /\ lastCall' = NoCall
    /\ UNCHANGED <<gemini, connectVars, transactionVars, transactionHistory,
                   calls, risk, monitorVars, storeVars, registryVars, now>>

\* model.generateContent answered: the analysis is parsed, cached and
\* returned; a text without JSON and an error give null; a 429 error starts
\* the wait of RETRY_DELAY_MS
GenerateContentAnswered(i, answer, analysis) ==
    /\ i \in DOMAIN aiCalls
    /\ aiCalls[i].stage = "generating"
    /\ answer = "rateLimited" => aiCalls[i].attempts < MaxAttempts
    /\ LET c == aiCalls[i]
       IN  IF answer = "rateLimited"
           THEN /\ aiCalls' = [aiCalls EXCEPT ![i].stage = "delayed"]
                /\ lastOp' = [op |-> "rateLimited",
                              arg |-> [contractId |-> c.contractId,
                                       attempts |-> c.attempts,
                                       delay |-> RETRY_DELAY_MS],
                              ok |-> FALSE]
                /\ UNCHANGED gemini
           ELSE /\ aiCalls' = RemoveAt(aiCalls, i)
                /\ gemini' =
                      IF answer = "analysis"
                      THEN [gemini EXCEPT !.cache =
                              {e \in @ : e.key # getCacheKey(c.contractAddress,
                                                             c.contractCode)}
                              \cup {[key |-> getCacheKey(c.contractAddress,
                                                         c.contractCode),
                                     value |-> analysis]}]
                      ELSE gemini
                /\ \E detectors \in DetectorResults :
                      AnalyzeContractDone(c.contractId, c.attempts,
                                          IF answer = "analysis"
                                          THEN <<analysis>> ELSE <<>>,
                                          detectors)
    /\ lastCall' = NoCall
    /\ UNCHANGED <<connectVars, transactionVars, transactionHistory,
                   calls, risk, monitorVars, storeVars, registryVars, now>>

\* The wait is over: analyzeSmartContract calls itself, which asks the
\* provider again unless the cache holds the key by now
RetryAfterDelay(i) ==
    /\ i \in DOMAIN aiCalls
    /\ aiCalls[i].stage = "delayed"
    /\ LET c == aiCalls[i]
           early == analyzeSmartContractEarly(gemini, c.contractAddress,
                                              c.contractCode)
       IN  IF Given(early)
           THEN /\ aiCalls' = RemoveAt(aiCalls, i)
                /\ \E detectors \in DetectorResults :
                      AnalyzeContractDone(c.contractId, c.attempts, early[1],
                                          detectors)
           ELSE /\ aiCalls' = [aiCalls EXCEPT ![i].stage = "generating",
                                              ![i].attempts = @ + 1]
                /\ lastOp' = [op |-> "retry",
                              arg |-> [contractId |-> c.contractId,
                                       attempts |-> c.attempts + 1],
                              ok |-> TRUE]
    /\ lastCall' = NoCall
    /\ UNCHANGED <<gemini, connectVars, transactionVars, transactionHistory,
                   calls, risk, monitorVars, storeVars, registryVars, now>>

-----------------------------------------------------------------------------
(* TransactionService.getTransactionAnalysis: src/unnamed/part_014 *)

\* What the awaits of getTransactionAnalysis gave: the transaction or null,
\* the network config or an exception
TransactionAnswers == [fetched : BOOLEAN, configured : BOOLEAN]

\* getTransactionAnalysis(hash) up to its first await: the stored analysis
\* is returned, or blockchainService.getTransaction(hash) is asked
GetTransactionAnalysis(hash) ==
    /\ IF hash \in analyzedTransactions
       THEN /\ UNCHANGED txTasks
            /\ lastOp' = [op |-> "getTransactionAnalysis",
                          arg |-> [hash |-> hash, stored |-> TRUE], ok |-> TRUE]
       ELSE /\ Len(txTasks) < MaxTxTasks
            /\ calls + Len(txTasks) < MaxTx
            /\ txTasks' = Append(txTasks, hash)
            /\ lastOp' = [op |-> "getTransactionAnalysis",
                          arg |-> [hash |-> hash, stored |-> FALSE], ok |-> TRUE]
    /\ lastCall' = NoCall
    /\ UNCHANGED <<aiVars, connectVars, analyzedTransactions, transactionHistory,
                   calls, risk, monitorVars, storeVars, registryVars, now>>

\* getTransactionAnalysis after its awaits: without the transaction or the
\* network config it returns null; else it calls analyzeTransaction without
\* contract code and stores the analysis under the hash
TransactionFetched(i, answer) ==
    /\ i \in DOMAIN txTasks
    /\ txTasks' = RemoveAt(txTasks, i)
    /\ LET hash == txTasks[i]
           transaction == NetworkTransaction(hash)
       IN  IF answer.fetched /\ answer.configured
           THEN \E roundsUp \in Roundings(transactionHistory, transaction) :
                  LET r == analyzeTransaction(transactionHistory, transaction,
                                              Undefined, roundsUp, now)
                  IN  /\ transactionHistory' = r.history
                      /\ calls' = calls + 1
                      /\ lastCall' = CallRecord(transactionHistory, transaction,
                                                Undefined, r)
                      /\ analyzedTransactions' =
                            IF r.outcome = "returned"
                            THEN analyzedTransactions \cup {hash}
                            ELSE analyzedTransactions
                      /\ lastOp' = [op |-> "transactionFetched",
                                    arg |-> [hash |-> hash, stored |-> FALSE],
                                    ok |-> r.outcome = "returned"]
           ELSE /\ lastCall' = NoCall
                /\ lastOp' = [op |-> "transactionFetched",
                              arg |-> [hash |-> hash, stored |-> FALSE],
                              ok |-> FALSE]
                /\ UNCHANGED <<transactionHistory, calls, analyzedTransactions>>
    /\ UNCHANGED <<aiVars, connectVars, risk, monitorVars, storeVars,
                   registryVars, now>>

-----------------------------------------------------------------------------
(* The system *)

Init == InitWith({<<>>, Flat(MIN_HISTORY - 1)})

Next ==
    \/ \E input \in DirectAlertInputs(now) : CreateAlert(input)
    \/ \E id \in KnownIds, notes \in Notes : ResolveAlert(id, notes)
    \/ \E id \in KnownIds : DeleteAlert(id)
    \/ LoadAlerts
    \/ Tick
    \/ \E a \in Addrs, account \in AccountAnswers : AddContractToMonitor(a, account)
    \/ \E a \in Addrs : RemoveContractFromMonitor(a)
    \/ \E event \in Events : ReceiveTransactionEvent(event)
    \/ \E i \in 1..MaxInFlight, answer \in NetworkAnswers :
          ProcessTransactionEvent(i, answer)

Spec == Init /\ [][Next]_vars

\* The alert store alone
InitStore == InitWith({<<>>})

NextStore ==
    \/ \E input \in DirectAlertInputs(now) : CreateAlert(input)
    \/ \E id \in KnownIds, notes \in Notes : ResolveAlert(id, notes)
    \/ \E id \in KnownIds : DeleteAlert(id)
    \/ LoadAlerts
    \/ Tick

SpecStore == InitStore /\ [][NextStore]_vars

-----------------------------------------------------------------------------
(* AlertService constructed over a cache that holds a snapshot, and its    *)
(* queries                                                                  *)

\* An alert as an earlier lifetime of the service persisted it
StoredAlert(t, n, address, score, stamp, resolved) ==
    [id |-> AlertId(t, n),
     contractAddress |-> address,
     transactionHash |-> "tx1",
     riskScore |-> [score |-> score, level |-> RiskLevelOf(score)],
     details |-> "reported",
     timestamp |-> stamp,
     patternIds |-> <<>>,
     resolved |-> resolved,
     resolutionNotes |-> IF resolved THEN "patched" ELSE Undefined]

\* alert-100-1 .. alert-100-7, of both contracts, open and resolved, of
\* scores 10 .. 70 and of three timestamps
SevenAlerts ==
    [i \in 1..7 |->
        StoredAlert(100, i, IF i % 2 = 1 THEN "erd1a" ELSE "erd1b",
                    10 * i, 100 + ((i + 1) % 3), i % 2 = 0)]

\* Values of the cache entry 'security:alerts' saveAlerts can have written:
\* the empty array left when every alert was deleted, one alert, two alerts
\* whose ids are not consecutive, and seven alerts
Snapshots ==
    {<<>>,
     <<StoredAlert(0, 1, "erd1a", 80, 0, TRUE)>>,
     <<StoredAlert(0, 1, "erd1a", 40, 1, FALSE),
       StoredAlert(1, 12, "erd1b", 50, 0, TRUE)>>,
     SevenAlerts}

\* alertService.createAlert(input) called in the turn that constructed the
\* service: the constructor has returned, the continuation of loadAlerts
\* has not run yet
CreateAlertEarly(input) ==
    /\ loadRead.pending
    /\ createAlert(input)
    /\ lastOp' = [op |-> "createAlert", arg |-> input.resolved, ok |-> TRUE]
    /\ lastCall' = NoCall
    /\ UNCHANGED <<aiVars, connectVars, transactionVars,
                   transactionHistory, calls, risk, monitorVars, registryVars, now>>

\* if (filter.contractAddress): an empty string counts as no condition
Truthy(opt) == Given(opt) /\ opt[1] # ""

\* The filter argument of getAlerts: none, or an object of optional fields
Filters ==
    {<<>>} \cup
    {<<f>> : f \in [contractAddress : {<<>>, <<"erd1a">>, <<"erd1b">>},
                    minRiskScore : {<<>>, <<0>>, <<50>>, <<81>>},
                    resolved : {<<>>, <<TRUE>>, <<FALSE>>}]}

\* getAlerts: the three alerts.filter(...) calls
FilterAlerts(m, f) ==
    LET byContract ==
            IF Truthy(f.contractAddress)
            THEN SelectSeq(m, LAMBDA a : a.contractAddress = f.contractAddress[1])
            ELSE m
        byScore ==
            IF Given(f.minRiskScore)
            THEN SelectSeq(byContract, LAMBDA a : a.riskScore.score >= f.minRiskScore[1])
            ELSE byContract
    IN  IF Given(f.resolved)
        THEN SelectSeq(byScore, LAMBDA a : a.resolved = f.resolved[1])
        ELSE byScore

\* The place of alert a in a list sorted newest first: behind every alert
\* that is not older
RECURSIVE InsertNewestFirst(_, _)
InsertNewestFirst(a, sorted) ==
    IF sorted = <<>> THEN <<a>>
    ELSE IF Head(sorted).timestamp >= a.timestamp
         THEN <<Head(sorted)>> \o InsertNewestFirst(a, Tail(sorted))
         ELSE <<a>> \o sorted

\* getAlerts that returns the alerts in the order of the map
SortNewestFirst_MapOrder(list) == list

\* alerts.sort((a, b) => b.timestamp.getTime() - a.timestamp.getTime()),
\* a stable sort
RECURSIVE SortNewestFirst(_)
SortNewestFirst(list) ==
    IF list = <<>> THEN <<>>
    ELSE InsertNewestFirst(list[Len(list)],
                           SortNewestFirst(SubSeq(list, 1, Len(list) - 1)))

\* AlertService.getAlerts(filter), its result
getAlerts(m, filter) ==
    SortNewestFirst(IF Given(filter) THEN FilterAlerts(m, filter[1]) ELSE m)

\* alertService.getAlerts(filter)
GetAlerts(filter) ==
    /\ ~loadRead.pending
    /\ lastOp' = [op |-> "getAlerts",
                  arg |-> [filter |-> filter, result |-> getAlerts(alerts, filter)],
                  ok |-> TRUE]
    /\ lastCall' = NoCall
    /\ UNCHANGED <<aiVars, connectVars, transactionVars,
                   transactionHistory, calls, risk, monitorVars, storeVars,
                   registryVars, now>>

InitRestart ==
    /\ transactionHistory = EmptyHistory
    /\ calls = 0
    /\ lastCall = NoCall
    /\ risk = NoRisk
    /\ monitoredContracts = {}
    /\ inFlight = <<>>
    /\ savedContracts = NotCached
    /\ alerts = <<>>
    /\ nextAlertId = 1
    /\ persisted \in {Cached(snapshot) : snapshot \in Snapshots}
    /\ loadRead = [pending |-> TRUE, cached |-> persisted]
    /\ allocated = <<>>
    /\ lastProcessedTxHashes = [a \in Addrs |-> Undefined]
    /\ contracts = <<>>
    /\ savedContractList = NotCached
    /\ tasks = <<>>
    /\ analysisCache = {}
    /\ aiCalls = <<>>
    /\ gemini = [enabled |-> TRUE, cache |-> {}]
    /\ connection = Connected
    /\ reachable = TRUE
    /\ analyzedTransactions = {}
    /\ txTasks = <<>>
    /\ now = 0
    /\ lastOp = NoOp

NextRestart ==
    \/ \E input \in DirectAlertInputs(now) : CreateAlertEarly(input)
    \/ LoadAlerts
    \/ \E input \in DirectAlertInputs(now) : CreateAlert(input)
    \/ \E filter \in Filters : GetAlerts(filter)
    \/ Tick

SpecRestart == InitRestart /\ [][NextRestart]_vars

-----------------------------------------------------------------------------
(* The contract registry, and the registry with the polling monitor *)

\* name handed to addContract
ContractNames == {Undefined}

InitRegistry == InitWith({<<>>})

NextRegistry ==
    \/ LoadAlerts
    \/ \E a \in Addrs, name \in ContractNames : AddContract(a, name)
    \/ \E i \in 1..MaxTasks, account \in AccountAnswers : ContractRegistered(i, account)
    \/ \E i \in 1..MaxTasks, code \in FetchedCodes : CodeFetched(i, code)
    \/ \E i \in 1..MaxTasks, riskScore \in RiskScores : AnalysisCompleted(i, riskScore)
    \/ \E a \in Addrs : RemoveContract(a)

SpecRegistry == InitRegistry /\ [][NextRegistry]_vars

\* The registry and its counters, while the blockchain provider answers
\* that an address is a contract and gives no contract code: every analysis
\* ends when its code request fails
NextCounts ==
    \/ LoadAlerts
    \/ \E a \in Addrs, name \in ContractNames : AddContract(a, name)
    \/ \E i \in 1..MaxTasks : ContractRegistered(i, "contract")
    \/ \E i \in 1..MaxTasks : CodeFetched(i, Null)
    \/ \E a \in Addrs : RemoveContract(a)
    \/ \E a \in Addrs, updates \in ContractUpdates : UpdateContract(a, updates)
    \/ \E a \in Addrs, isHighRisk \in BOOLEAN : IncrementAlertCount(a, isHighRisk)

SpecCounts == InitRegistry /\ [][NextCounts]_vars

\* The detector has seen twenty transactions of value 0 to erd1a
InitMonitoring == InitWith({Flat(20)})

NextMonitoring ==
    \/ LoadAlerts
    \/ \E name \in ContractNames : AddContract("erd1a", name)
    \/ \E i \in 1..MaxTasks, account \in AccountAnswers : ContractRegistered(i, account)
    \/ \E i \in 1..MaxTasks, code \in FetchedCodes : CodeFetched(i, code)
    \/ \E i \in 1..MaxTasks, riskScore \in RiskScores : AnalysisCompleted(i, riskScore)
    \/ \E a \in Addrs, latest \in LatestAnswers, fetched \in BOOLEAN :
          PollTransactions(a, latest, fetched)
    \/ \E i \in 1..MaxInFlight, answer \in NetworkAnswers :
          ProcessTransactionEvent(i, answer)

SpecMonitoring == InitMonitoring /\ [][NextMonitoring]_vars

-----------------------------------------------------------------------------
(* The flash-loan detector called on its own, without contract code *)

\* Payloads with one to five '@'-separated segments, with a flash-loan
\* keyword, with two and with three price keywords, and one in base64
\* ("swap@01")
FlashLoanPayloads ==
    {"a@b", "a@b@c", "a@b@c@d", "a@b@c@d@e", "flashLoan@01",
     "price_oracle@01", "price_oracle_rate@01", "c3dhcEAwMQ=="}

\* Transactions handed to the detector; bad = "value" is one whose
\* getValue() throws
FlashLoanTxs ==
    {[hash |-> "tx1", receiver |-> a, value |-> v, data |-> d, bad |-> b] :
        a \in Addrs, v \in 0..MaxValue, d \in FlashLoanPayloads,
        b \in {"none", "value"}}

\* flashLoanDetector.detect(transaction): pattern.detector(transaction,
\* undefined)
DetectFlashLoan(tx) ==
    /\ lastOp' = [op |-> "detectFlashLoanPattern",
                  arg |-> [tx |-> tx,
                           returned |-> detectFlashLoanPattern(tx, Undefined)],
                  ok |-> TRUE]
    /\ lastCall' = NoCall
    /\ UNCHANGED <<aiVars, connectVars, transactionVars, transactionHistory,
                   calls, risk, monitorVars, storeVars, registryVars, now>>

InitFlashLoan == InitWith({<<>>})

NextFlashLoan == \E tx \in FlashLoanTxs : DetectFlashLoan(tx)

SpecFlashLoan == InitFlashLoan /\ [][NextFlashLoan]_vars

-----------------------------------------------------------------------------
(* TransactionService with the detector *)

\* The detector is the monitor's too: its history of erd1a is empty or holds
\* earlier transactions
InitTransactions == InitWith({<<>>, Flat(MIN_HISTORY - 1)})

NextTransactions ==
    \/ \E hash \in TxHashes : GetTransactionAnalysis(hash)
    \/ \E i \in 1..MaxTxTasks, answer \in TransactionAnswers :
          TransactionFetched(i, answer)

SpecTransactions == InitTransactions /\ [][NextTransactions]_vars

-----------------------------------------------------------------------------
(* SecurityDetector.analyzeContract with the AI provider *)

\* The GeminiService was constructed with or without an API key
InitAi ==
    /\ transactionHistory = EmptyHistory
    /\ calls = 0
    /\ lastCall = NoCall
    /\ risk = NoRisk
    /\ monitoredContracts = {}
    /\ inFlight = <<>>
    /\ savedContracts = NotCached
    /\ alerts = <<>>
    /\ nextAlertId = 1
    /\ persisted = NotCached
    /\ loadRead = [pending |-> TRUE, cached |-> NotCached]
    /\ allocated = <<>>
    /\ lastProcessedTxHashes = [a \in Addrs |-> Undefined]
    /\ contracts = <<>>
    /\ savedContractList = NotCached
    /\ tasks = <<>>
    /\ analysisCache = {}
    /\ aiCalls = <<>>
    /\ gemini \in [enabled : BOOLEAN, cache : {{}}]
    /\ connection = Connected
    /\ reachable = TRUE
    /\ analyzedTransactions = {}
    /\ txTasks = <<>>
    /\ now = 0
    /\ lastOp = NoOp

NextAi ==
    \/ \E id \in ContractIds, code \in ContractCodes, fileName \in FileNames :
          AnalyzeContract(id, code, fileName)
    \/ \E i \in 1..MaxAiCalls, answer \in GenerateAnswers, analysis \in Analyses :
          GenerateContentAnswered(i, answer, analysis)
    \/ \E i \in 1..MaxAiCalls : RetryAfterDelay(i)

SpecAi == InitAi /\ [][NextAi]_vars

-----------------------------------------------------------------------------
(* The monitor from the start of the application, with a provider that may *)
(* be unreachable                                                           *)

InitConnect ==
    /\ transactionHistory = EmptyHistory
    /\ calls = 0
    /\ lastCall = NoCall
    /\ risk = NoRisk
    /\ monitoredContracts = {}
    /\ inFlight = <<>>
    /\ \/ savedContracts = NotCached
       \/ savedContracts = Cached({"erd1a"})
    /\ alerts = <<>>
    /\ nextAlertId = 1
    /\ persisted = NotCached
    /\ loadRead = [pending |-> TRUE, cached |-> NotCached]
    /\ allocated = <<>>
    /\ lastProcessedTxHashes = [a \in Addrs |-> Undefined]
    /\ contracts = <<>>
    /\ savedContractList = NotCached
    /\ tasks = <<>>
    /\ analysisCache = {}
    /\ aiCalls = <<>>
    /\ gemini = [enabled |-> TRUE, cache |-> {}]
    /\ connection = NotConnected
    /\ reachable \in BOOLEAN
    /\ analyzedTransactions = {}
    /\ txTasks = <<>>
    /\ now = 0
    /\ lastOp = NoOp

\* The steps of connectToMultiversX
ConnectSteps == OnModuleInit \/ NetworkConfigAnswered \/ BackoffElapsed

\* The steps of the poll timer and of the events it emits, while the
\* provider answers
PollSteps ==
    \/ \E a \in Addrs, latest \in LatestAnswers, fetched \in BOOLEAN :
          reachable /\ PollTransactions(a, latest, fetched)
    \/ \E i \in 1..MaxInFlight, answer \in NetworkAnswers :
          reachable /\ ProcessTransactionEvent(i, answer)

NextConnect ==
    \/ LoadAlerts
    \/ ConnectSteps
    \/ ProviderChanges
    \/ PollSteps

\* Every pending answer and timer of the connection setup is delivered
SpecConnect == InitConnect /\ [][NextConnect]_vars /\ WF_vars(ConnectSteps)

-----------------------------------------------------------------------------
(* Properties of the risk score and of analyzeTransaction *)

\* C1: the score analyzeTransaction returns is min(100, sum of the matched
\* patterns' weights (critical 25, high 15, medium 10, low 5) + 20 if the
\* transaction is an anomaly); with no pattern and no anomaly it is 0.
C1_AdditiveScore ==
    lastCall.outcome = "returned" =>
        LET matched == lastCall.result.matchedPatterns
            count(sev) == Cardinality({i \in DOMAIN matched : matched[i].severity = sev})
            weights == 25 * count("critical") + 15 * count("high")
                       + 10 * count("medium") + 5 * count("low")
        IN  lastCall.result.riskScore.score =
                Min(100, weights + (IF lastCall.result.isAnomaly THEN 20 ELSE 0))

\* C2: calculateRiskScore returns a score within 0..100 and the level the
\* thresholds give: >= 75 critical, >= 50 high, >= 25 medium, > 0 low, else none.
C2_ScoreRangeAndLevel ==
    /\ risk.result.score \in 0..100
    /\ risk.result.level =
          CASE risk.result.score >= 75 -> "critical"
            [] risk.result.score \in 50..74 -> "high"
            [] risk.result.score \in 25..49 -> "medium"
            [] risk.result.score \in 1..24 -> "low"
            [] OTHER -> "none"

\* calculateRiskScore was called with three patterns and an anomaly whose
\* penalties exceed 100: the score was clamped to 0
C2_Witness ==
    /\ Len(risk.patterns) = 3
    /\ risk.isAnomaly
    /\ risk.result = [score |-> 0, level |-> "none"]

\* C3: the matched patterns of a returned analysis are exactly the patterns
\* among reentrancy, overflow, access-control and flash-loan whose detector
\* returns true for the transaction (here: analysisCache without contract code).
C3_MatchedPatterns ==
    (/\ lastCall.outcome = "returned"
     /\ lastCall.result.riskScore.level # "unknown"
     /\ lastCall.code = Undefined)
    => LET matched == lastCall.result.matchedPatterns
           expected == DetectorMatches(lastCall.tx, lastCall.code)
       IN  {matched[i].id : i \in DOMAIN matched}
             = {expected[i].id : i \in DOMAIN expected}

\* C5: no history ever holds more than 1000 transactions, and an analysis
\* appends its transaction to the receiver's history, dropping the oldest
\* entry first when the history already holds 1000 (FIFO).
C5_HistoryFifo ==
    /\ [](\A a \in Addrs : Len(transactionHistory[a]) <= 1000)
    /\ [][(calls' = calls + 1 /\ lastCall'.tx.bad # "receiver") =>
            LET a == lastCall'.tx.receiver
                old == transactionHistory[a]
            IN  transactionHistory'[a] =
                    IF Len(old) = 1000
                    THEN Append(Tail(old), lastCall'.tx)
                    ELSE Append(old, lastCall'.tx)]_vars

\* A full history of erd1a took one more transaction: its oldest entry, of
\* value 2, is gone and the new transaction is its last entry
C5_Witness ==
    LET h == transactionHistory["erd1a"]
    IN  /\ Len(h) = 1000
        /\ h[1] = EarlierTx(4)
        /\ h[1000] = lastCall.tx
        /\ h[999].hash # "tx0"

\* C6: with fewer than 10 previously observed transactions of the contract,
\* a returned analysis has isAnomaly = false whatever the value.
C6_NoAnomalyBelowTen ==
    (lastCall.outcome = "returned" /\ lastCall.observed < 10)
    => ~lastCall.result.isAnomaly

\* C7: given 20 previous values of mean M and standard deviation S > 0, a
\* transaction of value M + 4S is an anomaly and one of value M + S is not.
\* With P and R the sum and the sum of squares of the 20 values,
\* value = M + k*S exactly when 20*value - P = k * sqrt(20*R - P*P).
C7_FourSigma ==
    [][(calls' = calls + 1 /\ lastCall'.outcome = "returned"
        /\ lastCall'.result.riskScore.level # "unknown") =>
        LET h == transactionHistory[lastCall'.tx.receiver]
            v == lastCall'.tx.value
            P == SumValue(h, 1, Len(h))
            R == SumSquare(h, 1, Len(h))
            D == 20 * R - P * P
            dev == 20 * v - P
        IN  (Len(h) = 20 /\ D > 0 /\ dev >= 0) =>
                /\ dev * dev = 16 * D => lastCall'.result.isAnomaly
                /\ dev * dev = D => ~lastCall'.result.isAnomaly]_vars

\* C8: analyzeTransaction never propagates an exception: every call returns.
C8_NeverThrows == lastCall.outcome # "thrown"

-----------------------------------------------------------------------------
(* Properties of event processing and of the alert store *)

\* C4: processing a transaction event whose receiver is a monitored contract
\* creates exactly one alert, for that event, when the finding of its
\* analysis has a matched pattern or is an anomaly, and no alert otherwise.
C4_AlertIffFinding ==
    [][(lastOp'.op = "processTransactionEvent" /\ Len(inFlight') < Len(inFlight)) =>
        IF /\ lastOp'.ok
           /\ lastCall'.outcome = "returned"
           /\ (lastCall'.result.matchedPatterns # <<>> \/ lastCall'.result.isAnomaly)
        THEN /\ Len(alerts') = Len(alerts) + 1
             /\ SubSeq(alerts', 1, Len(alerts)) = alerts
             /\ alerts'[Len(alerts')].contractAddress = lastOp'.arg.receiver
             /\ alerts'[Len(alerts')].transactionHash = lastOp'.arg.txHash
        ELSE alerts' = alerts]_vars

\* The event of a monitored contract was analysisCache, the finding is an anomaly
\* and the newest alert is the one created for the event
C4_Witness ==
    /\ lastOp.op = "processTransactionEvent"
    /\ lastOp.ok
    /\ lastCall.result.isAnomaly
    /\ alerts # <<>>
    /\ alerts[Len(alerts)].transactionHash = lastOp.arg.txHash
    /\ alerts[Len(alerts)].details = lastCall.result.details

\* C9: every alert enters the store with resolved = false, whatever the
\* input carries, and an alert that is resolved is resolved in every later
\* state in which it exists.
C9_OpenThenResolvedForGood ==
    [][\A i \in DOMAIN alerts' :
         IF \E j \in DOMAIN alerts : alerts[j].id = alerts'[i].id
         THEN \A j \in DOMAIN alerts :
                  (alerts[j].id = alerts'[i].id /\ alerts[j].resolved)
                      => alerts'[i].resolved
         ELSE ~alerts'[i].resolved]_vars

\* An alert was just created from an input carrying resolved = true and is
\* open, next to an alert resolved earlier that is still resolved
C9_Witness ==
    /\ lastOp.op = "createAlert"
    /\ lastOp.arg = TRUE
    /\ Len(alerts) = 2
    /\ alerts[1].resolved
    /\ ~alerts[2].resolved

\* C10: resolving an already-resolved alert with new notes replaces its
\* resolutionNotes, keeps resolved = true and changes nothing else: the
\* number of alerts and every other alert are unchanged.
C10_ResolveAgain ==
    [][(lastOp'.op = "resolveAlert" /\ lastOp'.ok
        /\ lastOp'.arg.before.resolved) =>
        /\ Len(alerts') = Len(alerts)
        /\ \A j \in DOMAIN alerts :
              IF alerts[j].id = lastOp'.arg.id
              THEN /\ alerts'[j].resolved
                   /\ alerts'[j].resolutionNotes = lastOp'.arg.notes
                   /\ alerts'[j] =
                        [alerts[j] EXCEPT !.resolutionNotes = lastOp'.arg.notes]
              ELSE alerts'[j] = alerts[j]
        /\ nextAlertId' = nextAlertId]_vars

\* An alert resolved with one note was resolved again with another, in a
\* store that holds a second alert
C10_Witness ==
    /\ lastOp.op = "resolveAlert"
    /\ lastOp.ok
    /\ lastOp.arg.before.resolved
    /\ lastOp.arg.before.resolutionNotes # lastOp.arg.notes
    /\ Len(alerts) = 2
    /\ \E j \in DOMAIN alerts :
          /\ alerts[j].id = lastOp.arg.id
          /\ alerts[j].resolutionNotes = lastOp.arg.notes

\* C11: resolveAlert with an id that is not in the store returns null (it
\* does not throw) and leaves the in-memory alerts, the persisted snapshot
\* and the id counter as they were.
C11_ResolveUnknown ==
    [][(lastOp'.op = "resolveAlert" /\ ~MapHas(alerts, lastOp'.arg.id)) =>
        /\ lastOp'.arg.returned = Null
        /\ alerts' = alerts
        /\ persisted' = persisted
        /\ nextAlertId' = nextAlertId]_vars

\* resolveAlert was called with an unknown id on a store holding two alerts,
\* one of them resolved, whose snapshot is persisted
C11_Witness ==
    /\ lastOp.op = "resolveAlert"
    /\ ~lastOp.ok
    /\ lastOp.arg.id = AbsentId
    /\ Len(alerts) = 2
    /\ alerts[1].resolved
    /\ persisted = Cached(alerts)

\* C12: within one lifetime of the AlertService the sequence numbers that
\* successive createAlert calls allocate are strictly increasing and no two
\* alerts of the store share an id, whatever the interleaving of the
\* createAlert calls with each other and with the loadAlerts the
\* constructor started.
C12_IncreasingIds ==
    /\ \A i, j \in DOMAIN allocated : i < j => allocated[i] < allocated[j]
    /\ \A i, j \in DOMAIN alerts : i # j => alerts[i].id # alerts[j].id

\* C13: loading a persisted snapshot sets the next-id counter to the largest
\* numeric suffix among the loaded alert ids plus one (1 for an empty
\* snapshot), and every alert created after the load gets a sequence number
\* greater than the suffix of every loaded alert.
C13_CounterAfterLoad ==
    [][LET loaded == loadRead.cached.value
           suffixes == {parseInt(LastPart(loaded[k].id)) : k \in DOMAIN loaded}
           largest == IF suffixes = {} THEN 0
                      ELSE CHOOSE m \in suffixes : \A x \in suffixes : x <= m
       IN  /\ (lastOp'.op = "loadAlerts" /\ lastOp'.ok) =>
                 nextAlertId' = largest + 1
           /\ (~loadRead.pending /\ Len(allocated') = Len(allocated) + 1) =>
                 \A x \in suffixes : allocated'[Len(allocated')] > x]_vars

\* alert-100-1 .. alert-100-7 were loaded and the alert created after the
\* load carries the sequence number 8
C13_Witness ==
    /\ ~loadRead.pending
    /\ loadRead.cached.value = SevenAlerts
    /\ allocated = <<8>>
    /\ Len(alerts) = 8
    /\ alerts[8].id = AlertId(now, 8)

-----------------------------------------------------------------------------
(* Properties of the monitor and of the contract registry *)

\* C15: the alert store deduplicates findings: after any sequence of
\* transaction events and poll ticks it holds at most one alert per
\* (contractAddress, transactionHash).
C15_OneAlertPerTransaction ==
    \A i, j \in DOMAIN alerts :
        (/\ alerts[i].contractAddress = alerts[j].contractAddress
         /\ alerts[i].transactionHash = alerts[j].transactionHash) => i = j

\* C16: addContract of an address the registry holds returns the existing
\* contract and changes nothing: the registry keeps its one entry for the
\* address as it is, and no registration with the monitor, no persist and
\* no analysis is started.
C16_AddTwice ==
    [][(lastOp'.op = "addContract"
        /\ contractsHas(contracts, lastOp'.arg.address)) =>
        /\ lastOp'.arg.returned = contractsGet(contracts, lastOp'.arg.address)
        /\ contracts' = contracts
        /\ Cardinality({i \in DOMAIN contracts' :
                           contracts'[i].address = lastOp'.arg.address}) = 1
        /\ tasks' = tasks
        /\ savedContractList' = savedContractList
        /\ monitoredContracts' = monitoredContracts
        /\ savedContracts' = savedContracts
        /\ analysisCache' = analysisCache]_vars

\* addContract was called for an address whose contract is registered,
\* monitored and analysed: the call returned that contract
C16_Witness ==
    /\ lastOp.op = "addContract"
    /\ ~lastOp.ok
    /\ contractsHas(contracts, lastOp.arg.address)
    /\ lastOp.arg.returned = contractsGet(contracts, lastOp.arg.address)
    /\ Given(lastOp.arg.returned.lastAnalyzedAt)
    /\ lastOp.arg.address \in monitoredContracts
    /\ tasks = <<>>

\* C17: removeContract of an address the registry does not hold returns
\* false and changes nothing; of an address it holds, it deletes the entry
\* (the other entries stay), removes the address from the monitored set,
\* persists the contract list and returns true.
C17_Remove ==
    [][lastOp'.op = "removeContract" =>
        LET address == lastOp'.arg.address
        IN  IF ~contractsHas(contracts, address)
            THEN /\ ~lastOp'.ok
                 /\ contracts' = contracts
                 /\ monitoredContracts' = monitoredContracts
                 /\ savedContracts' = savedContracts
                 /\ savedContractList' = savedContractList
                 /\ tasks' = tasks
            ELSE /\ lastOp'.ok
                 /\ ~contractsHas(contracts', address)
                 /\ contracts' = SelectSeq(contracts, LAMBDA c : c.address # address)
                 /\ address \notin monitoredContracts'
                 /\ monitoredContracts' = monitoredContracts \ {address}
                 /\ savedContractList.present' = TRUE
                 /\ savedContractList.value' = contracts']_vars

\* A registered and monitored contract was removed: the other contract is
\* still registered and monitored, and the persisted list is the registry
C17_Witness ==
    /\ lastOp.op = "removeContract"
    /\ lastOp.ok
    /\ lastOp.arg.monitored
    /\ Len(contracts) = 1
    /\ contracts[1].address \in monitoredContracts
    /\ lastOp.arg.address \notin monitoredContracts
    /\ savedContractList = Cached(contracts)

\* C18: when the analysis started by addContract completes after the
\* contract was removed, it returns without an error and neither re-creates
\* nor changes a registry entry: the registry stays without the address and
\* nothing is persisted.
C18_AnalysisAfterRemoval ==
    [][(lastOp'.op = "analysisCompleted"
        /\ ~contractsHas(contracts, lastOp'.arg.address)) =>
        /\ lastOp'.ok
        /\ contracts' = contracts
        /\ ~contractsHas(contracts', lastOp'.arg.address)
        /\ savedContractList' = savedContractList]_vars

\* The analysis of a removed contract completed with a risk score; the
\* registry, persisted after the removal, is without the address
C18_Witness ==
    /\ lastOp.op = "analysisCompleted"
    /\ lastOp.arg.riskScore = <<70>>
    /\ ~contractsHas(contracts, lastOp.arg.address)
    /\ lastOp.arg.address \in analysisCache
    /\ savedContractList = Cached(contracts)

\* C19: in every reachable state of the registry no two contracts share an
\* address and every contract has alertCount >= highRiskAlerts >= 0.
C19_RegistryInvariant ==
    /\ \A i, j \in DOMAIN contracts :
          contracts[i].address = contracts[j].address => i = j
    /\ \A i \in DOMAIN contracts :
          /\ contracts[i].alertCount >= contracts[i].highRiskAlerts
          /\ contracts[i].highRiskAlerts >= 0

\* Two contracts are registered; one was renamed and counts two alerts, one
\* of them high-risk, the other counts none
C19_Witness ==
    /\ Len(contracts) = 2
    /\ contracts[1].alertCount = 2
    /\ contracts[1].highRiskAlerts = 1
    /\ contracts[1].name = "vault"
    /\ contracts[2].alertCount = 0

\* C20: whenever an alert is created for the address of a contract of the
\* registry, the contract's alertCount grows by one, and its highRiskAlerts
\* too when the alert's level is high or critical.
C20_CountsFollowAlerts ==
    [][(/\ Len(alerts') = Len(alerts) + 1
        /\ contractsHas(contracts, alerts'[Len(alerts')].contractAddress)) =>
        LET alert == alerts'[Len(alerts')]
            before == contractsGet(contracts, alert.contractAddress)
        IN  /\ contractsHas(contracts', alert.contractAddress)
            /\ contractsGet(contracts', alert.contractAddress).alertCount =
                  before.alertCount + 1
            /\ contractsGet(contracts', alert.contractAddress).highRiskAlerts =
                  before.highRiskAlerts
                  + (IF alert.riskScore.level \in {"high", "critical"} THEN 1 ELSE 0)]_vars

-----------------------------------------------------------------------------
(* Properties of the AI path, of the connection and of the pollers *)

\* C21: analyzeContract tolerates a failed AI call: when analyzeSmartContract
\* gave null, analyzeContract does not throw and returns the four detector
\* sub-results with a locally computed security score and risk level.
C21_PartialFailure ==
    (lastOp.op = "analyzeContract" /\ ~Given(lastOp.arg.fullAnalysis)) =>
        /\ lastOp.arg.result.outcome = "returned"
        /\ Given(lastOp.arg.result.detectors)
        /\ Given(lastOp.arg.result.securityScore)
        /\ Given(lastOp.arg.result.riskLevel)

\* C22: a rate-limited AI request is retried exactly once: no call makes more
\* than two generateContent requests.
C22_OneRetry ==
    \A i \in DOMAIN aiCalls : aiCalls[i].attempts <= 2

\* C23: connection setup makes at most three attempts and, when all fail,
\* tries again later: once the provider is reachable for good, transaction
\* polling eventually runs.
C23_EventuallyPolling ==
    <>[]reachable => <>(connection.polling)

C25_FlashLoanRule ==
    lastOp.op = "detectFlashLoanPattern" =>
        LET tx == lastOp.arg.tx
            data == getTransactionData(tx)
        IN  lastOp.arg.returned <=>
                /\ tx.bad = "none"
                /\ tx.value > FLASH_LOAN_VALUE
                /\ \/ checkForFlashLoanKeywords(data)
                   \/ SplitLength(data) >= 3
                   \/ checkForPriceManipulation(data)

\* C26: whenever no addContract call is between its start and its end (and
\* removeContract runs in one step), the addresses of the registry are the
\* monitored set of the BlockchainService.
C26_RegistryMatchesMonitor ==
    (\A i \in DOMAIN tasks : tasks[i].stage # "registering") =>
        {contracts[i].address : i \in DOMAIN contracts} = monitoredContracts

\* C27: once removeContractFromMonitor(addr) has returned true, no alert for
\* addr is created: every alert processTransactionEvent creates is for an
\* address the monitored set holds at that moment.
C27_NoAlertAfterRemoval ==
    [][(lastOp'.op = "processTransactionEvent" /\ Len(alerts') > Len(alerts)) =>
          lastOp'.arg.receiver \in monitoredContracts]_vars

\* C28: getTransactionAnalysis calls analyzeTransaction at most once for a
\* hash, also for concurrent calls: the history of a receiver holds at most
\* one entry per hash.
C28_AnalysedOnce ==
    \A a \in Addrs, h \in TxHashes :
        Cardinality({i \in DOMAIN transactionHistory[a] :
                        transactionHistory[a][i].hash = h}) <= 1

\* C29: a hash is recorded as processed only once its analysis has completed:
\* while no event is in flight, the hash recorded for an address is one the
\* detector has analysed.
C29_RecordedAfterAnalysis ==
    inFlight = <<>> =>
        \A a \in Addrs :
            lastProcessedTxHashes[a] # Undefined =>
                \E b \in Addrs :
                    \E i \in DOMAIN transactionHistory[b] :
                        transactionHistory[b][i].hash = lastProcessedTxHashes[a]

\* C30: when the analysis addContract started has completed without an error
\* and the address is in the registry, its entry has lastAnalyzedAt set.
C30_AnalyzedAfterAdd ==
    [][(/\ \/ lastOp'.op = "analysisCompleted"
           \/ lastOp'.op = "codeFetched" /\ lastOp'.arg.cached
        /\ contractsHas(contracts', lastOp'.arg.address)) =>
          Given(contractsGet(contracts', lastOp'.arg.address).lastAnalyzedAt)]_vars

=============================================================================
